---- MODULE Spec2Model ----
(***************************************************************************)
(* A model of the semantic core of the sway compiler front end:            *)
(*   - the type engine's arena of type shapes (TypeInfo) with its          *)
(*     equality and hashing (sway-core/src/type_engine/type_info.rs),      *)
(*   - the declaration engine's arena of declaration payloads, and         *)
(*   - the typed declaration TyDeclaration with its engine-aware equality, *)
(*     hashing and downcasts                                               *)
(*     (sway-core/src/language/ty/declaration/declaration.rs).             *)
(***************************************************************************)
EXTENDS Integers, Sequences, FiniteSets, TLC

VARIABLES type_slab, decl_slab, last

vars == <<type_slab, decl_slab, last>>

(***************************************************************************)
(* Bounds of the model.                                                    *)
(***************************************************************************)
\* Number of type shapes the type engine may hold.
MaxTypes == 2
\* Number of payloads the declaration engine may hold.
MaxDecls == 2
\* Number of payloads and of shapes the engines may hold once rewriting and
\* return_type have stored theirs.
MaxArenaDecls == 3
MaxArenaTypes == 4

Names == {"a", "b"}
Spans == {"s1", "s2"}

\* sway_types::Ident: a string and the span it was read from.
Ident(str, span) == [str |-> str, span |-> span]
Idents == {Ident(n, s) : n \in Names, s \in Spans}

\* Ident equality and hashing look at the string only.
IdentEq(l, r) == l.str = r.str

(***************************************************************************)
(* The hasher state: the sequence of values written to it.  Two hashes are *)
(* equal when the same values were written in the same order.              *)
(***************************************************************************)
WU8(n) == [k |-> "u8", n |-> n, s |-> ""]
WInt(n) == [k |-> "int", n |-> n, s |-> ""]
WLen(n) == [k |-> "len", n |-> n, s |-> ""]
WStr(s) == [k |-> "str", n |-> 0, s |-> s]

IdentHash(i) == <<WStr(i.str)>>

RECURSIVE Concat(_)
Concat(seqs) ==
    IF seqs = <<>> THEN <<>> ELSE Head(seqs) \o Concat(Tail(seqs))

(***************************************************************************)
(* TypeInfo: the type shapes.                                              *)
(***************************************************************************)
UnitTags == {"Unknown", "Boolean", "SelfType", "Byte", "B256", "Numeric",
             "Contract", "ErrorRecovery"}
TypeInfoTags == UnitTags \cup {"UnknownGeneric", "Str", "UnsignedInteger", "Enum",
                               "Struct", "Ref", "Tuple", "ContractCaller", "Custom",
                               "Array", "Storage"}

Unit(tag) == [tag |-> tag]
UnknownGeneric(name) == [tag |-> "UnknownGeneric", name |-> name]
Str(len) == [tag |-> "Str", len |-> len]
UnsignedInteger(bits) == [tag |-> "UnsignedInteger", bits |-> bits]
Enum(name, variant_types) ==
    [tag |-> "Enum", name |-> name, variant_types |-> variant_types]
Struct(name, fields) == [tag |-> "Struct", name |-> name, fields |-> fields]
Ref(id) == [tag |-> "Ref", id |-> id]
Tuple(fields) == [tag |-> "Tuple", fields |-> fields]
ContractCaller(abi_name, address) ==
    [tag |-> "ContractCaller", abi_name |-> abi_name, address |-> address]
Custom(name, type_arguments) ==
    [tag |-> "Custom", name |-> name, type_arguments |-> type_arguments]
Array(elem_ty, count) == [tag |-> "Array", elem_ty |-> elem_ty, count |-> count]
Storage(fields) == [tag |-> "Storage", fields |-> fields]

TypeArgument(type_id) == [type_id |-> type_id]
TypedStructField(name, type) == [name |-> name, type |-> type]
TypedEnumVariant(name, type, tag) == [name |-> name, type |-> type, tag |-> tag]

\* The handles issued so far.
TypeIds == 0 .. (Len(type_slab) - 1)
DeclIds == 0 .. (Len(decl_slab) - 1)

\* TypeEngine::get: the stored shape, Ref included.
TypeEngineGet(id) == type_slab[id + 1]

\* look_up_type_id follows Ref until a shape that is not a Ref.
RECURSIVE look_up_type_id(_)
look_up_type_id(id) ==
    LET ty == TypeEngineGet(id)
    IN  IF ty.tag = "Ref" THEN look_up_type_id(ty.id) ELSE ty

Min(a, b) == IF a < b THEN a ELSE b

(***************************************************************************)
(* impl PartialEq for TypeInfo.  Each arm of the match is an operator of   *)
(* its own; TypeInfoEq is the match.                                       *)
(***************************************************************************)
RECURSIVE TypeInfoEq(_, _)

\* TypeArgument == TypeArgument: the looked-up shapes are compared.
TypeArgumentEq(l, r) ==
    TypeInfoEq(look_up_type_id(l.type_id), look_up_type_id(r.type_id))

\* Vec<TypeArgument> == Vec<TypeArgument>: same length, equal element by element.
TypeArgumentsEq(l, r) ==
    /\ Len(l) = Len(r)
    /\ \A i \in 1 .. Len(l) : TypeArgumentEq(l[i], r[i])

TypedStructFieldEq(l, r) ==
    /\ IdentEq(l.name, r.name)
    /\ TypeInfoEq(look_up_type_id(l.type), look_up_type_id(r.type))

TypedStructFieldsEq(l, r) ==
    /\ Len(l) = Len(r)
    /\ \A i \in 1 .. Len(l) : TypedStructFieldEq(l[i], r[i])

TypedEnumVariantEq(l, r) ==
    /\ IdentEq(l.name, r.name)
    /\ TypeInfoEq(look_up_type_id(l.type), look_up_type_id(r.type))
    /\ l.tag = r.tag

TypedEnumVariantsEq(l, r) ==
    /\ Len(l) = Len(r)
    /\ \A i \in 1 .. Len(l) : TypedEnumVariantEq(l[i], r[i])

\* A Ref arm that compares the handles instead of the shapes behind them.
RefEqByHandle(l, r) == l.id = r.id

\* (Self::Ref(l), Self::Ref(r)) => look_up_type_id(*l) == look_up_type_id(*r)
RefEq(l, r) == TypeInfoEq(look_up_type_id(l.id), look_up_type_id(r.id))

\* (Self::Tuple(l), Self::Tuple(r)) => l.iter().zip(r.iter()).map(..).all(|x| x):
\* zip stops at the shorter of the two lists.
TupleEq(l, r) ==
    \A i \in 1 .. Min(Len(l.fields), Len(r.fields)) :
        TypeInfoEq(look_up_type_id(l.fields[i].type_id),
                   look_up_type_id(r.fields[i].type_id))

\* An Array arm that compares the element handles instead of the element shapes.
ArrayEqByHandle(l, r) == l.elem_ty = r.elem_ty /\ l.count = r.count

\* (Self::Array(l0, l1), Self::Array(r0, r1)) =>
\*     look_up_type_id(*l0) == look_up_type_id(*r0) && l1 == r1
ArrayEq(l, r) ==
    /\ TypeInfoEq(look_up_type_id(l.elem_ty), look_up_type_id(r.elem_ty))
    /\ l.count = r.count

\* A fallthrough arm that looks through a Ref on either side before it gives up.
MismatchedEqThroughRef(l, r) ==
    \/ l.tag = "Ref" /\ look_up_type_id(l.id) = r
    \/ r.tag = "Ref" /\ look_up_type_id(r.id) = l

\* _ => false: the variants of the two sides differ.
MismatchedEq(l, r) == FALSE

TypeInfoEq(l, r) ==
    IF l.tag # r.tag THEN MismatchedEq(l, r)
    ELSE CASE l.tag \in UnitTags -> TRUE
           [] l.tag = "UnknownGeneric" -> IdentEq(l.name, r.name)
           [] l.tag = "Custom" ->
                 /\ IdentEq(l.name, r.name)
                 /\ TypeArgumentsEq(l.type_arguments, r.type_arguments)
           [] l.tag = "Str" -> l.len = r.len
           [] l.tag = "UnsignedInteger" -> l.bits = r.bits
           [] l.tag = "Enum" ->
                 /\ IdentEq(l.name, r.name)
                 /\ TypedEnumVariantsEq(l.variant_types, r.variant_types)
           [] l.tag = "Struct" ->
                 /\ IdentEq(l.name, r.name)
                 /\ TypedStructFieldsEq(l.fields, r.fields)
           [] l.tag = "Ref" -> RefEq(l, r)
           [] l.tag = "Tuple" -> TupleEq(l, r)
           [] l.tag = "ContractCaller" ->
                 l.abi_name = r.abi_name /\ l.address = r.address
           [] l.tag = "Array" -> ArrayEq(l, r)
           [] l.tag = "Storage" -> TypedStructFieldsEq(l.fields, r.fields)

(***************************************************************************)
(* impl Hash for TypeInfo: a fixed tag, then the sub-fields.               *)
(***************************************************************************)
RECURSIVE TypeInfoHash(_)

\* TypeArgument::hash hashes the looked-up shape.
TypeArgumentHash(a) == TypeInfoHash(look_up_type_id(a.type_id))

\* Vec<T>::hash writes the length, then every element.
TypeArgumentsHash(v) ==
    <<WLen(Len(v))>> \o Concat([i \in 1 .. Len(v) |-> TypeArgumentHash(v[i])])

TypedStructFieldHash(f) ==
    IdentHash(f.name) \o TypeInfoHash(look_up_type_id(f.type))

TypedStructFieldsHash(v) ==
    <<WLen(Len(v))>> \o Concat([i \in 1 .. Len(v) |-> TypedStructFieldHash(v[i])])

TypedEnumVariantHash(f) ==
    IdentHash(f.name) \o TypeInfoHash(look_up_type_id(f.type)) \o <<WInt(f.tag)>>

TypedEnumVariantsHash(v) ==
    <<WLen(Len(v))>> \o Concat([i \in 1 .. Len(v) |-> TypedEnumVariantHash(v[i])])

\* #[derive(Hash)] on AbiName: the discriminant, then the call path.
AbiNameHash(a) ==
    IF a.known THEN <<WInt(1), WStr(a.path)>> ELSE <<WInt(0)>>

\* TypeInfo::Tuple(fields) => { state.write_u8(5); fields.hash(state); }
TupleHash(k) == <<WU8(5)>> \o TypeArgumentsHash(k.fields)

\* TypeInfo::Ref(id) => { state.write_u8(17); look_up_type_id(*id).hash(state); }
RefHash(k) == <<WU8(17)>> \o TypeInfoHash(look_up_type_id(k.id))

\* TypeInfo::Array(elem_ty, count) => { state.write_u8(18); ..; count.hash(state); }
ArrayHash(k) ==
    <<WU8(18)>> \o TypeInfoHash(look_up_type_id(k.elem_ty)) \o <<WInt(k.count)>>

TypeInfoHash(k) ==
    CASE k.tag = "Str" -> <<WU8(1), WInt(k.len)>>
      [] k.tag = "UnsignedInteger" -> <<WU8(2), WInt(k.bits)>>
      [] k.tag = "Numeric" -> <<WU8(3)>>
      [] k.tag = "Boolean" -> <<WU8(4)>>
      [] k.tag = "Tuple" -> TupleHash(k)
      [] k.tag = "Byte" -> <<WU8(6)>>
      [] k.tag = "B256" -> <<WU8(7)>>
      [] k.tag = "Enum" ->
            <<WU8(8)>> \o IdentHash(k.name) \o TypedEnumVariantsHash(k.variant_types)
      [] k.tag = "Struct" ->
            <<WU8(9)>> \o IdentHash(k.name) \o TypedStructFieldsHash(k.fields)
      [] k.tag = "ContractCaller" ->
            <<WU8(10)>> \o AbiNameHash(k.abi_name) \o <<WStr(k.address)>>
      [] k.tag = "Contract" -> <<WU8(11)>>
      [] k.tag = "ErrorRecovery" -> <<WU8(12)>>
      [] k.tag = "Unknown" -> <<WU8(13)>>
      [] k.tag = "SelfType" -> <<WU8(14)>>
      [] k.tag = "UnknownGeneric" -> <<WU8(15)>> \o IdentHash(k.name)
      [] k.tag = "Custom" ->
            <<WU8(16)>> \o IdentHash(k.name) \o TypeArgumentsHash(k.type_arguments)
      [] k.tag = "Ref" -> RefHash(k)
      [] k.tag = "Array" -> ArrayHash(k)
      [] k.tag = "Storage" -> <<WU8(19)>> \o TypedStructFieldsHash(k.fields)

(***************************************************************************)
(* The shapes that are enumerated.                                         *)
(***************************************************************************)
IntegerBits == {8, 64}
StrLens == {1, 2}
ArrayCounts == {1, 2}
Deferred == [known |-> FALSE, path |-> ""]
Known(path) == [known |-> TRUE, path |-> path]
AbiNames == {Deferred, Known("abi")}
Addresses == {"0x0", "0x1"}

\* Lists of type arguments of length 0, 1 and 2 over the issued handles.
TypeArgumentLists ==
    {<<>>} \cup {<<TypeArgument(i)>> : i \in TypeIds}
           \cup {<<TypeArgument(i), TypeArgument(j)>> : i \in TypeIds, j \in TypeIds}
ShortTypeArgumentLists == {<<>>} \cup {<<TypeArgument(i)>> : i \in TypeIds}
FieldLists ==
    {<<>>} \cup {<<TypedStructField(Ident("a", "s1"), i)>> : i \in TypeIds}
VariantLists ==
    {<<>>} \cup {<<TypedEnumVariant(Ident("a", "s1"), i, 0)>> : i \in TypeIds}

\* The names of unknown generics: the same string at two places, and another string.
GenericNames == {Ident("a", "s1"), Ident("a", "s2"), Ident("b", "s1")}

\* Every shape that is enumerated; its handles are issued handles of the type engine.
TypeInfos ==
    {Unit(t) : t \in UnitTags}
        \cup {UnknownGeneric(n) : n \in GenericNames}
        \cup {Str(n) : n \in StrLens}
        \cup {UnsignedInteger(b) : b \in IntegerBits}
        \cup {Enum(Ident("a", "s1"), v) : v \in VariantLists}
        \cup {Enum(Ident("b", "s1"), <<>>)}
        \cup {Struct(Ident("a", "s1"), f) : f \in FieldLists}
        \cup {Struct(Ident("b", "s1"), <<>>)}
        \cup {Ref(i) : i \in TypeIds}
        \cup {Tuple(f) : f \in TypeArgumentLists}
        \cup {ContractCaller(a, x) : a \in AbiNames, x \in Addresses}
        \cup {Custom(Ident("a", "s1"), a) : a \in ShortTypeArgumentLists}
        \cup {Custom(Ident("b", "s1"), <<>>)}
        \cup {Array(i, c) : i \in TypeIds, c \in ArrayCounts}
        \cup {Storage(f) : f \in FieldLists}

\* The shapes that are stored in the type engine: leaves, aliases and compound
\* shapes over the handles issued so far.
StoredTypeInfos ==
    {Unit("Boolean"), UnsignedInteger(64), Tuple(<<>>)}
        \cup {Ref(i) : i \in TypeIds}
        \cup {Tuple(<<TypeArgument(i)>>) : i \in TypeIds}

(***************************************************************************)
(* The declaration engine: an arena of declaration payloads.  A payload is *)
(* kept as its kind and the handle of the type it is declared over.        *)
(***************************************************************************)
DeclKinds == {"constant", "function", "trait", "struct", "enum", "impl trait",
              "abi", "contract storage declaration"}

Payload(kind, type_id) == [kind |-> kind, type_id |-> type_id]

\* DeclEngine::get: the payload behind a handle, whatever its kind.
DeclEngineGet(id) == decl_slab[id + 1]

\* The error of DeclEngine::get_<kind> on a handle that holds another kind.
DeclEngineError(kind, id, at) ==
    [type |-> "DeclEngine", expected |-> kind,
     actually |-> DeclEngineGet(id).kind, span |-> at]

\* DeclEngine::get_<kind>(decl_id, span): Ok(payload) or Err(error).
DeclEngineGetKind(kind, id, at) ==
    IF DeclEngineGet(id).kind = kind
    THEN [ok |-> TRUE, value |-> DeclEngineGet(id)]
    ELSE [ok |-> FALSE, value |-> DeclEngineError(kind, id, at)]

\* Payload equality and hashing under the engines: the kind, and the shape of
\* the type behind the payload's handle.
PayloadEq(l, r) ==
    /\ l.kind = r.kind
    /\ TypeInfoEq(TypeEngineGet(l.type_id), TypeEngineGet(r.type_id))

PayloadHash(p) == <<WStr(p.kind)>> \o TypeInfoHash(TypeEngineGet(p.type_id))

\* CompileError::DeclIsNotA<kind> { actually, span }: DeclIsNotAnEnum,
\* DeclIsNotAStruct, DeclIsNotAFunction, DeclIsNotAVariable, DeclIsNotAnAbi and
\* DeclIsNotAConstant are told apart by the expected kind.
DeclIsNotA(kind, actually, at) ==
    [type |-> "DeclIsNotA", expected |-> kind, actually |-> actually, span |-> at]

(***************************************************************************)
(* CompileResult: an optional value with the warnings and errors.  lookups *)
(* lists the handles the call resolved in the declaration engine.          *)
(***************************************************************************)
CompileResult(value, warnings, errors, lookups) ==
    [value |-> value, warnings |-> warnings, errors |-> errors, lookups |-> lookups]

\* ok(value, warnings, errors)
ok(value, warnings, errors, lookups) ==
    CompileResult(<<value>>, warnings, errors, lookups)

\* err(warnings, errors)
err(warnings, errors, lookups) == CompileResult(<<>>, warnings, errors, lookups)

\* CompileResult::from(Result<T, CompileError>)
CompileResultFrom(result, lookups) ==
    IF result.ok THEN ok(result.value, <<>>, <<>>, lookups)
    ELSE err(<<>>, <<result.value>>, lookups)

(***************************************************************************)
(* TyDeclaration.                                                          *)
(***************************************************************************)
NamedHandleTags == {"ConstantDeclaration", "FunctionDeclaration", "TraitDeclaration",
                    "StructDeclaration", "EnumDeclaration", "ImplTrait",
                    "AbiDeclaration"}
TyDeclarationTags ==
    NamedHandleTags \cup {"VariableDeclaration", "GenericTypeForFunctionScope",
                          "ErrorRecovery", "StorageDeclaration"}

TyVariableDeclaration(name, mutability, type_ascription, return_type) ==
    [name |-> name, mutability |-> mutability, type_ascription |-> type_ascription,
     body |-> [return_type |-> return_type]]

VariableDeclaration(decl) == [tag |-> "VariableDeclaration", decl |-> decl]
NamedHandle(tag, name, decl_id, decl_span) ==
    [tag |-> tag, name |-> name, decl_id |-> decl_id, decl_span |-> decl_span]
GenericTypeForFunctionScope(name, type_id) ==
    [tag |-> "GenericTypeForFunctionScope", name |-> name, type_id |-> type_id]
ErrorRecovery(span) == [tag |-> "ErrorRecovery", span |-> span]
StorageDeclaration(decl_id, decl_span) ==
    [tag |-> "StorageDeclaration", decl_id |-> decl_id, decl_span |-> decl_span]

\* impl Spanned for TyDeclaration
span(d) ==
    CASE d.tag = "VariableDeclaration" -> d.decl.name.span
      [] d.tag = "GenericTypeForFunctionScope" -> d.name.span
      [] d.tag = "ErrorRecovery" -> d.span
      [] OTHER -> d.decl_span

\* TyDeclaration::friendly_type_name
friendly_type_name(d) ==
    CASE d.tag = "VariableDeclaration" -> "variable"
      [] d.tag = "ConstantDeclaration" -> "constant"
      [] d.tag = "FunctionDeclaration" -> "function"
      [] d.tag = "TraitDeclaration" -> "trait"
      [] d.tag = "StructDeclaration" -> "struct"
      [] d.tag = "EnumDeclaration" -> "enum"
      [] d.tag = "ImplTrait" -> "impl trait"
      [] d.tag = "AbiDeclaration" -> "abi"
      [] d.tag = "GenericTypeForFunctionScope" -> "generic type parameter"
      [] d.tag = "ErrorRecovery" -> "error"
      [] d.tag = "StorageDeclaration" -> "contract storage declaration"

(***************************************************************************)
(* The checked downcasts TyDeclaration::expect_<kind>.                     *)
(***************************************************************************)
\* check!(result, return err(warnings, errors), warnings, errors) followed by
\* ok(decl, warnings, errors)
CheckThenOk(result, warnings, errors) ==
    IF result.value = <<>>
    THEN err(warnings \o result.warnings, errors \o result.errors, result.lookups)
    ELSE ok(result.value[1], warnings \o result.warnings, errors \o result.errors,
            result.lookups)

\* the `decl =>` arm of expect_<kind>
ExpectMismatchAtAccessSpan(kind, d, access_span) ==
    err(<<>>, <<DeclIsNotA(kind, friendly_type_name(d), access_span)>>, <<>>)

ExpectMismatch(kind, d, access_span) ==
    err(<<>>, <<DeclIsNotA(kind, friendly_type_name(d), span(d))>>, <<>>)

\* the `TyDeclaration::ErrorRecovery(_) =>` arm of expect_<kind>
ExpectRecoveryAsMismatch(kind, d, access_span) == ExpectMismatch(kind, d, access_span)

ExpectRecovery(kind, d, access_span) == err(<<>>, <<>>, <<>>)

\* the matching arm of expect_enum, expect_abi and expect_const
ExpectResolveDroppingError(kind, d, access_span) ==
    IF DeclEngineGetKind(kind, d.decl_id, access_span).ok
    THEN ok(DeclEngineGetKind(kind, d.decl_id, access_span).value, <<>>, <<>>,
            <<d.decl_id>>)
    ELSE err(<<>>, <<>>, <<d.decl_id>>)

ExpectResolve(kind, d, access_span) ==
    CompileResultFrom(DeclEngineGetKind(kind, d.decl_id, access_span), <<d.decl_id>>)

\* the matching arm of expect_struct and expect_function
ExpectResolveChecked(kind, d, access_span) ==
    CheckThenOk(ExpectResolve(kind, d, access_span), <<>>, <<>>)

expect_enum(d, access_span) ==
    CASE d.tag = "EnumDeclaration" -> ExpectResolve("enum", d, access_span)
      [] d.tag = "ErrorRecovery" -> ExpectRecovery("enum", d, access_span)
      [] OTHER -> ExpectMismatch("enum", d, access_span)

expect_struct(d, access_span) ==
    CASE d.tag = "StructDeclaration" -> ExpectResolveChecked("struct", d, access_span)
      [] d.tag = "ErrorRecovery" -> ExpectRecovery("struct", d, access_span)
      [] OTHER -> ExpectMismatch("struct", d, access_span)

expect_function(d, access_span) ==
    CASE d.tag = "FunctionDeclaration" ->
             ExpectResolveChecked("function", d, access_span)
      [] d.tag = "ErrorRecovery" -> ExpectRecovery("function", d, access_span)
      [] OTHER -> ExpectMismatch("function", d, access_span)

\* expect_variable takes no engine and no access span: access_span is unused.
expect_variable(d, access_span) ==
    CASE d.tag = "VariableDeclaration" -> ok(d.decl, <<>>, <<>>, <<>>)
      [] d.tag = "ErrorRecovery" -> ExpectRecovery("variable", d, access_span)
      [] OTHER -> ExpectMismatch("variable", d, access_span)

expect_abi(d, access_span) ==
    CASE d.tag = "AbiDeclaration" -> ExpectResolve("abi", d, access_span)
      [] d.tag = "ErrorRecovery" -> ExpectRecovery("abi", d, access_span)
      [] OTHER -> ExpectMismatch("abi", d, access_span)

expect_const(d, access_span) ==
    CASE d.tag = "ConstantDeclaration" -> ExpectResolve("constant", d, access_span)
      [] d.tag = "ErrorRecovery" -> ExpectRecovery("constant", d, access_span)
      [] OTHER -> ExpectMismatch("constant", d, access_span)

ExpectKinds == {"enum", "struct", "function", "variable", "abi", "constant"}

\* The downcast for the kind asked for.
Expect(kind, d, access_span) ==
    CASE kind = "enum" -> expect_enum(d, access_span)
      [] kind = "struct" -> expect_struct(d, access_span)
      [] kind = "function" -> expect_function(d, access_span)
      [] kind = "variable" -> expect_variable(d, access_span)
      [] kind = "abi" -> expect_abi(d, access_span)
      [] kind = "constant" -> expect_const(d, access_span)

\* The variant expect_<kind> accepts.
ExpectedTag(kind) ==
    CASE kind = "enum" -> "EnumDeclaration"
      [] kind = "struct" -> "StructDeclaration"
      [] kind = "function" -> "FunctionDeclaration"
      [] kind = "variable" -> "VariableDeclaration"
      [] kind = "abi" -> "AbiDeclaration"
      [] kind = "constant" -> "ConstantDeclaration"

(***************************************************************************)
(* TyDeclaration equality and hashing under the engines.                   *)
(***************************************************************************)
\* TyVariableDeclaration equality and hashing: the name, the mutability and
\* the shapes of the ascribed type and of the body's type.
TyVariableDeclarationEq(x, y) ==
    /\ IdentEq(x.name, y.name)
    /\ x.mutability = y.mutability
    /\ TypeInfoEq(TypeEngineGet(x.type_ascription), TypeEngineGet(y.type_ascription))
    /\ TypeInfoEq(TypeEngineGet(x.body.return_type), TypeEngineGet(y.body.return_type))

TyVariableDeclarationHash(x) ==
    IdentHash(x.name) \o <<WStr(x.mutability)>>
        \o TypeInfoHash(TypeEngineGet(x.type_ascription))
        \o TypeInfoHash(TypeEngineGet(x.body.return_type))

\* the arm of the seven named handle-backed variants
NamedHandleEqByDeclId(l, r) == IdentEq(l.name, r.name) /\ l.decl_id = r.decl_id

NamedHandleEq(l, r) ==
    IdentEq(l.name, r.name) /\ PayloadEq(DeclEngineGet(l.decl_id), DeclEngineGet(r.decl_id))

\* the StorageDeclaration arm
StorageDeclarationEq(l, r) ==
    PayloadEq(DeclEngineGet(l.decl_id), DeclEngineGet(r.decl_id))

\* the GenericTypeForFunctionScope arm
GenericTypeForFunctionScopeEq(x, y) ==
    IdentEq(x.name, y.name) /\ TypeInfoEq(TypeEngineGet(x.type_id), TypeEngineGet(y.type_id))

\* the ErrorRecovery arm
ErrorRecoveryEq(x, y) == x.span = y.span

\* the `_ => false` arm
OtherwiseEqAcrossHandles(l, r) ==
    /\ l.tag \in NamedHandleTags
    /\ r.tag \in NamedHandleTags
    /\ IdentEq(l.name, r.name)
    /\ l.decl_id = r.decl_id

OtherwiseEq(l, r) == FALSE

\* PartialEqWithEngines for TyDeclaration
TyDeclarationEq(l, r) ==
    IF l.tag # r.tag THEN OtherwiseEq(l, r)
    ELSE CASE l.tag = "VariableDeclaration" -> TyVariableDeclarationEq(l.decl, r.decl)
           [] l.tag \in NamedHandleTags -> NamedHandleEq(l, r)
           [] l.tag = "StorageDeclaration" -> StorageDeclarationEq(l, r)
           [] l.tag = "GenericTypeForFunctionScope" ->
                  GenericTypeForFunctionScopeEq(l, r)
           [] l.tag = "ErrorRecovery" -> ErrorRecoveryEq(l, r)

\* std::mem::discriminant(self).hash(state): the index of the variant
Discriminant(d) ==
    CASE d.tag = "VariableDeclaration" -> 0
      [] d.tag = "ConstantDeclaration" -> 1
      [] d.tag = "FunctionDeclaration" -> 2
      [] d.tag = "TraitDeclaration" -> 3
      [] d.tag = "StructDeclaration" -> 4
      [] d.tag = "EnumDeclaration" -> 5
      [] d.tag = "ImplTrait" -> 6
      [] d.tag = "AbiDeclaration" -> 7
      [] d.tag = "GenericTypeForFunctionScope" -> 8
      [] d.tag = "ErrorRecovery" -> 9
      [] d.tag = "StorageDeclaration" -> 10

\* the arm of the eight handle-backed variants
HandleHashOfDeclId(d) == <<WInt(d.decl_id)>>

HandleHash(d) == PayloadHash(DeclEngineGet(d.decl_id))

\* the GenericTypeForFunctionScope arm
GenericTypeForFunctionScopeHash(d) ==
    IdentHash(d.name) \o TypeInfoHash(TypeEngineGet(d.type_id))

\* HashWithEngines for TyDeclaration
TyDeclarationHash(d) ==
    <<WInt(Discriminant(d))>> \o
        CASE d.tag = "VariableDeclaration" -> TyVariableDeclarationHash(d.decl)
          [] d.tag \in NamedHandleTags \cup {"StorageDeclaration"} -> HandleHash(d)
          [] d.tag = "GenericTypeForFunctionScope" -> GenericTypeForFunctionScopeHash(d)
          [] d.tag = "ErrorRecovery" -> <<>>

(***************************************************************************)
(* The declarations the queries are asked about: every variant, over the   *)
(* handles the engines have issued.                                        *)
(***************************************************************************)
TyVariableDeclarations ==
    {TyVariableDeclaration(Ident("a", "s1"), "Immutable", t, t) : t \in TypeIds}
        \cup {TyVariableDeclaration(Ident("a", "s2"), "Immutable", 0, t) : t \in TypeIds}
        \cup {TyVariableDeclaration(Ident("b", "s1"), "Immutable", 0, 0),
              TyVariableDeclaration(Ident("a", "s1"), "Mutable", 0, 0)}

\* A name with the span of the declaration that carries it.
NamedAt == {<<"a", "s1">>, <<"a", "s2">>, <<"b", "s1">>}

TyDeclarations ==
    {VariableDeclaration(v) : v \in TyVariableDeclarations}
        \cup {NamedHandle(tag, Ident(n[1], "s1"), id, n[2]) :
                tag \in NamedHandleTags, n \in NamedAt, id \in DeclIds}
        \cup {StorageDeclaration(id, at) : id \in DeclIds, at \in Spans}
        \cup {GenericTypeForFunctionScope(n, t) : n \in GenericNames, t \in TypeIds}
        \cup {ErrorRecovery(at) : at \in Spans}

\* The declarations on the other side of a comparison: those named "a".
OtherTyDeclarations ==
    {VariableDeclaration(TyVariableDeclaration(Ident("a", "s1"), "Immutable", t, t)) :
        t \in TypeIds}
        \cup {NamedHandle(tag, Ident("a", "s1"), id, "s1") :
                tag \in NamedHandleTags, id \in DeclIds}
        \cup {StorageDeclaration(id, "s1") : id \in DeclIds}
        \cup {GenericTypeForFunctionScope(Ident("a", "s1"), t) : t \in TypeIds}
        \cup {ErrorRecovery("s1")}

\* The type engine as type elaboration leaves it before declarations are
\* compared: two handles on one shape, on two shapes, and on two tuples.
ElaboratedTypes ==
    {<<Unit("Boolean"), Unit("Boolean")>>,
     <<Unit("Boolean"), UnsignedInteger(64)>>,
     <<Tuple(<<>>), Tuple(<<TypeArgument(0)>>)>>}

\* The payloads elaboration stores: a declaration over the first type, or an
\* instance of a stored declaration over any type.
ElaboratedPayloads ==
    {Payload(k, 0) : k \in DeclKinds}
        \cup {Payload(DeclEngineGet(id).kind, t) : id \in DeclIds, t \in TypeIds}

(***************************************************************************)
(* Substitution and self-type replacement.  Both rewrite the declaration   *)
(* in place and may store a new payload; they give the declaration and the *)
(* declaration engine as the call leaves them.                             *)
(***************************************************************************)
\* TypeSubstMap: the placeholder handle and the handle that replaces it.
TypeSubstMap(from, to) == [from |-> from, to |-> to]

\* SubstTypes for TypeId
TypeIdSubst(id, type_mapping) ==
    IF id = type_mapping.from THEN type_mapping.to ELSE id

\* ReplaceSelfType for TypeId: a handle on the SelfType shape becomes self_type.
TypeIdReplaceSelfType(id, self_type) ==
    IF TypeEngineGet(id).tag = "SelfType" THEN self_type ELSE id

\* SubstTypes and ReplaceSelfType for a payload of the declaration engine
PayloadSubst(p, type_mapping) ==
    [p EXCEPT !.type_id = TypeIdSubst(p.type_id, type_mapping)]

PayloadReplaceSelfType(p, self_type) ==
    [p EXCEPT !.type_id = TypeIdReplaceSelfType(p.type_id, self_type)]

\* The handle of the rewritten payload q of handle id: id itself when q is the
\* stored payload, a new handle on q otherwise.  The stored payload stays.
DeclIdInstance(id, q) ==
    IF q = DeclEngineGet(id)
    THEN [decl_id |-> id, decl_slab |-> decl_slab]
    ELSE [decl_id |-> Len(decl_slab), decl_slab |-> Append(decl_slab, q)]

\* SubstTypes and ReplaceSelfType for DeclId
DeclIdSubst(id, type_mapping) ==
    DeclIdInstance(id, PayloadSubst(DeclEngineGet(id), type_mapping))

DeclIdReplaceSelfType(id, self_type) ==
    DeclIdInstance(id, PayloadReplaceSelfType(DeclEngineGet(id), self_type))

\* SubstTypes and ReplaceSelfType for TyVariableDeclaration: the inline payload
\* is rewritten where it stands.
TyVariableDeclarationSubst(v, type_mapping) ==
    [v EXCEPT !.type_ascription = TypeIdSubst(v.type_ascription, type_mapping),
              !.body.return_type = TypeIdSubst(v.body.return_type, type_mapping)]

TyVariableDeclarationReplaceSelfType(v, self_type) ==
    [v EXCEPT !.type_ascription = TypeIdReplaceSelfType(v.type_ascription, self_type),
              !.body.return_type = TypeIdReplaceSelfType(v.body.return_type, self_type)]

\* The declaration and the declaration engine after a rewriting call.
Rewritten(d, slab) == [d |-> d, decl_slab |-> slab]

\* The variants whose handle is rewritten.
RewrittenTags == {"FunctionDeclaration", "TraitDeclaration", "StructDeclaration",
                  "EnumDeclaration", "ImplTrait"}

\* subst_inner: the arm of Function, Trait, Struct, Enum and ImplTrait
SubstHandleIgnored(d, type_mapping) == Rewritten(d, decl_slab)

SubstHandle(d, type_mapping) ==
    Rewritten([d EXCEPT !.decl_id = DeclIdSubst(d.decl_id, type_mapping).decl_id],
              DeclIdSubst(d.decl_id, type_mapping).decl_slab)

\* subst_inner: the `=> ()` arm
SubstIgnoredButHandle(d, type_mapping) ==
    IF d.tag \in {"AbiDeclaration", "ConstantDeclaration", "StorageDeclaration"}
    THEN SubstHandle(d, type_mapping)
    ELSE Rewritten(d, decl_slab)

SubstIgnored(d, type_mapping) == Rewritten(d, decl_slab)

\* SubstTypes for TyDeclaration
subst_inner(d, type_mapping) ==
    CASE d.tag = "VariableDeclaration" ->
             Rewritten(VariableDeclaration(TyVariableDeclarationSubst(d.decl, type_mapping)),
                       decl_slab)
      [] d.tag \in RewrittenTags -> SubstHandle(d, type_mapping)
      [] OTHER -> SubstIgnored(d, type_mapping)

\* replace_self_type: the arm of Function, Trait, Struct, Enum and ImplTrait
ReplaceSelfTypeHandleAndSpan(d, self_type) ==
    Rewritten([d EXCEPT !.decl_id = DeclIdReplaceSelfType(d.decl_id, self_type).decl_id,
                        !.decl_span = "s1"],
              DeclIdReplaceSelfType(d.decl_id, self_type).decl_slab)

ReplaceSelfTypeHandle(d, self_type) ==
    Rewritten([d EXCEPT !.decl_id = DeclIdReplaceSelfType(d.decl_id, self_type).decl_id],
              DeclIdReplaceSelfType(d.decl_id, self_type).decl_slab)

\* replace_self_type: the `=> ()` arm
ReplaceSelfTypeIgnored(d, self_type) == Rewritten(d, decl_slab)

\* ReplaceSelfType for TyDeclaration
replace_self_type(d, self_type) ==
    CASE d.tag = "VariableDeclaration" ->
             Rewritten(VariableDeclaration(
                           TyVariableDeclarationReplaceSelfType(d.decl, self_type)),
                       decl_slab)
      [] d.tag \in RewrittenTags -> ReplaceSelfTypeHandle(d, self_type)
      [] OTHER -> ReplaceSelfTypeIgnored(d, self_type)

(***************************************************************************)
(* Display and TyDeclaration::return_type.  A rendered string is kept as   *)
(* the sequence of the pieces written to it.                               *)
(***************************************************************************)
\* The prefix DisplayWithEngines writes for the mutability of a variable.
MutabilityPrefix(mutability) ==
    CASE mutability = "Mutable" -> <<"mut">>
      [] mutability = "RefMutable" -> <<"ref mut">>
      [] mutability = "Immutable" -> <<>>

\* engines.help_out(shape).to_string(): the shape is rendered by its variant.
TypeInfoDisplay(ty) == <<ty.tag>>

\* DisplayWithEngines for TyDeclaration
fmt(d) ==
    <<friendly_type_name(d), " declaration (">>
        \o (CASE d.tag = "VariableDeclaration" ->
                     MutabilityPrefix(d.decl.mutability) \o <<d.decl.name.str, ": ">>
                         \o TypeInfoDisplay(TypeEngineGet(d.decl.type_ascription))
                         \o <<" = ", "{body}">>
              [] d.tag \in {"FunctionDeclaration", "TraitDeclaration",
                            "StructDeclaration", "EnumDeclaration"} -> <<d.name.str>>
              [] OTHER -> <<>>)
        \o <<")">>

\* CompileError::NotAType { span, name, actually_is }
NotAType(at, name, actually_is) ==
    [type |-> "NotAType", span |-> at, name |-> name, actually_is |-> actually_is]

\* The result of return_type and the type engine as the call leaves it.
Typed(result, slab) == [result |-> result, type_slab |-> slab]

\* The shapes create_type_id and the Storage arm store for a payload: the
\* nominal type with one field of the payload's type.
StructTypeInfo(p) ==
    Struct(Ident("a", "s1"), <<TypedStructField(Ident("a", "s1"), p.type_id)>>)
EnumTypeInfo(p) ==
    Enum(Ident("a", "s1"), <<TypedEnumVariant(Ident("a", "s1"), p.type_id, 0)>>)
StorageTypeInfo(p) == Storage(<<TypedStructField(Ident("a", "s1"), p.type_id)>>)

\* return_type: the VariableDeclaration arm
ReturnTypeOfVariable(d) ==
    Typed(ok(d.decl.body.return_type, <<>>, <<>>, <<>>), type_slab)

\* return_type: the FunctionDeclaration arm
ReturnTypeOfFunction(d) ==
    LET decl == CompileResultFrom(DeclEngineGetKind("function", d.decl_id, span(d)),
                                  <<d.decl_id>>)
    IN  IF decl.value = <<>>
        THEN Typed(err(decl.warnings, decl.errors, decl.lookups), type_slab)
        ELSE Typed(ok(decl.value[1].type_id, decl.warnings, decl.errors, decl.lookups),
                   type_slab)

\* return_type: the arms that store a shape.  The payload is resolved as `kind`
\* with the span `at`; `shape` is stored under a new handle, which is returned.
ReturnTypeStoredInPlace(decl, shape) ==
    IF decl.value = <<>>
    THEN Typed(err(decl.warnings, decl.errors, decl.lookups), type_slab)
    ELSE Typed(ok(0, decl.warnings, decl.errors, decl.lookups),
               [type_slab EXCEPT ![1] = shape])

ReturnTypeStored(decl, shape) ==
    IF decl.value = <<>>
    THEN Typed(err(decl.warnings, decl.errors, decl.lookups), type_slab)
    ELSE Typed(ok(Len(type_slab), decl.warnings, decl.errors, decl.lookups),
               Append(type_slab, shape))

\* return_type: the StructDeclaration arm
ReturnTypeOfStruct(d) ==
    ReturnTypeStored(
        CompileResultFrom(DeclEngineGetKind("struct", d.decl_id, span(d)), <<d.decl_id>>),
        StructTypeInfo(DeclEngineGet(d.decl_id)))

\* return_type: the EnumDeclaration arm
ReturnTypeOfEnum(d, access_span) ==
    ReturnTypeStored(
        CompileResultFrom(DeclEngineGetKind("enum", d.decl_id, access_span), <<d.decl_id>>),
        EnumTypeInfo(DeclEngineGet(d.decl_id)))

\* return_type: the StorageDeclaration arm
ReturnTypeOfStorage(d) ==
    ReturnTypeStored(
        CompileResultFrom(DeclEngineGetKind("contract storage declaration", d.decl_id,
                                            span(d)), <<d.decl_id>>),
        StorageTypeInfo(DeclEngineGet(d.decl_id)))

\* return_type: the `decl =>` arm
ReturnTypeNotATypeAtAccessSpan(d, access_span) ==
    Typed(err(<<>>, <<NotAType(access_span, fmt(d), friendly_type_name(d))>>, <<>>),
          type_slab)

ReturnTypeNotAType(d, access_span) ==
    Typed(err(<<>>, <<NotAType(span(d), fmt(d), friendly_type_name(d))>>, <<>>),
          type_slab)

\* TyDeclaration::return_type
return_type(d, access_span) ==
    CASE d.tag = "VariableDeclaration" -> ReturnTypeOfVariable(d)
      [] d.tag = "FunctionDeclaration" -> ReturnTypeOfFunction(d)
      [] d.tag = "StructDeclaration" -> ReturnTypeOfStruct(d)
      [] d.tag = "EnumDeclaration" -> ReturnTypeOfEnum(d, access_span)
      [] d.tag = "StorageDeclaration" -> ReturnTypeOfStorage(d)
      [] d.tag = "GenericTypeForFunctionScope" ->
             Typed(ok(d.type_id, <<>>, <<>>, <<>>), type_slab)
      [] OTHER -> ReturnTypeNotAType(d, access_span)

(***************************************************************************)
(* The read-only queries: visibility, get_decl_ident, friendly_name,       *)
(* doc_name and get_decl_ref.  A call that may abort gives Aborted or      *)
(* Returned(value); an Option is a sequence of at most one element.        *)
(***************************************************************************)
Returned(value) == [aborted |-> FALSE, value |-> value]
Aborted == [aborted |-> TRUE, value |-> <<>>]

\* A payload with its visibility field.
VisiblePayload(kind, type_id, visibility) ==
    [kind |-> kind, type_id |-> type_id, visibility |-> visibility]

\* VariableMutability::visibility
MutabilityVisibility(mutability) == "Private"

\* visibility: the arms of Trait, Constant, Struct, Enum and Function
VisibilityOfPayload(d) ==
    LET decl == CompileResultFrom(
                    DeclEngineGetKind(friendly_type_name(d), d.decl_id, d.decl_span),
                    <<d.decl_id>>)
    IN  IF decl.value = <<>>
        THEN err(decl.warnings, decl.errors, decl.lookups)
        ELSE ok(decl.value[1].visibility, decl.warnings, decl.errors, decl.lookups)

\* visibility: the arm of GenericTypeForFunctionScope, ImplTrait,
\* StorageDeclaration, AbiDeclaration and ErrorRecovery
VisibilityPublicIfResolved(d) ==
    IF d.tag \in {"ImplTrait", "StorageDeclaration", "AbiDeclaration"}
    THEN VisibilityOfPayload(d)
    ELSE ok("Public", <<>>, <<>>, <<>>)

VisibilityPublic(d) == ok("Public", <<>>, <<>>, <<>>)

\* TyDeclaration::visibility
visibility(d) ==
    CASE d.tag \in {"TraitDeclaration", "ConstantDeclaration", "StructDeclaration",
                    "EnumDeclaration", "FunctionDeclaration"} -> VisibilityOfPayload(d)
      [] d.tag = "VariableDeclaration" ->
             ok(MutabilityVisibility(d.decl.mutability), <<>>, <<>>, <<>>)
      [] OTHER -> VisibilityPublic(d)

\* get_decl_ident: the VariableDeclaration arm
DeclIdentOfVariableAbsent(d) == <<>>

DeclIdentOfVariable(d) == <<d.decl.name>>

\* GetDeclIdent for TyDeclaration
get_decl_ident(d) ==
    CASE d.tag = "VariableDeclaration" -> DeclIdentOfVariable(d)
      [] d.tag \in NamedHandleTags \cup {"GenericTypeForFunctionScope"} -> <<d.name>>
      [] d.tag = "ErrorRecovery" -> <<>>
      [] d.tag = "StorageDeclaration" -> <<>>

\* self.get_decl_ident().map_or(String::from(""), |f| f.as_str().to_string())
DeclIdentString(d) ==
    IF get_decl_ident(d) = <<>> THEN <<>> ELSE <<get_decl_ident(d)[1].str>>

\* TypeInfo::json_abi_str: the shape is rendered by its variant.
json_abi_str(ty) == <<ty.tag>>

\* TyDeclaration::friendly_name; the unwrap of the ImplTrait arm aborts when
\* the handle does not resolve to an impl trait.
friendly_name(d) ==
    IF d.tag = "ImplTrait"
    THEN IF DeclEngineGetKind("impl trait", d.decl_id, "dummy").ok
         THEN Returned(DeclIdentString(d) \o <<" for ">>
                           \o json_abi_str(TypeEngineGet(DeclEngineGet(d.decl_id).type_id)))
         ELSE Aborted
    ELSE Returned(DeclIdentString(d))

\* TyDeclaration::doc_name
doc_name_of_types(d) ==
    CASE d.tag = "StructDeclaration" -> Returned(<<"struct">>)
      [] d.tag = "EnumDeclaration" -> Returned(<<"enum">>)
      [] d.tag = "TraitDeclaration" -> Returned(<<"trait">>)
      [] d.tag = "AbiDeclaration" -> Returned(<<"abi">>)
      [] d.tag = "StorageDeclaration" -> Returned(<<"contract_storage">>)
      [] d.tag = "ImplTrait" -> Returned(<<"impl_trait">>)
      [] OTHER -> Aborted

doc_name(d) ==
    CASE d.tag = "StructDeclaration" -> Returned(<<"struct">>)
      [] d.tag = "EnumDeclaration" -> Returned(<<"enum">>)
      [] d.tag = "TraitDeclaration" -> Returned(<<"trait">>)
      [] d.tag = "AbiDeclaration" -> Returned(<<"abi">>)
      [] d.tag = "StorageDeclaration" -> Returned(<<"contract_storage">>)
      [] d.tag = "ImplTrait" -> Returned(<<"impl_trait">>)
      [] d.tag = "FunctionDeclaration" -> Returned(<<"fn">>)
      [] d.tag = "ConstantDeclaration" -> Returned(<<"constant">>)
      [] OTHER -> Aborted

\* Descriptor: Documentable(Document), NonDocumentable, or the Err of the
\* Result.  Of the Document, attrs_opt is kept.
Documentable(attrs_opt) == [tag |-> "Documentable", attrs_opt |-> attrs_opt]
NonDocumentable == [tag |-> "NonDocumentable"]
DescriptorErr == [tag |-> "Err"]

\* The attributes of a resolved payload: none, some that render to HTML, some
\* for which attrsmap_to_html_str returns Err.
AttributesMaps == {"empty", "rendered", "unrenderable"}

\* The interface_surface of a resolved trait or abi: no method, methods whose
\* handles resolve, a method whose handle get_trait_fn fails on.  The other
\* payloads have none.
InterfaceSurfaces(d) ==
    IF d.tag \in {"TraitDeclaration", "AbiDeclaration"}
    THEN {"empty", "resolves", "dangling"} ELSE {"empty"}

\* Descriptor::from_typed_decl(decl_engine, ty_decl, _, document_private_items):
\* "?" on the lookup and bail! on attributes that do not render give Err.
DescriptorOfItemWithAttrs(d, hidden, attributes, interface_surface) ==
    IF ~DeclEngineGetKind(friendly_type_name(d), d.decl_id, d.decl_span).ok
    THEN DescriptorErr
    ELSE IF hidden THEN NonDocumentable
    ELSE IF attributes = "unrenderable" THEN DescriptorErr
    ELSE IF interface_surface = "dangling" THEN DescriptorErr
    ELSE Documentable(<<"html">>)

DescriptorOfItem(d, hidden, attributes, interface_surface) ==
    IF ~DeclEngineGetKind(friendly_type_name(d), d.decl_id, d.decl_span).ok
    THEN DescriptorErr
    ELSE IF hidden THEN NonDocumentable
    ELSE IF attributes = "unrenderable" THEN DescriptorErr
    ELSE IF interface_surface = "dangling" THEN DescriptorErr
    ELSE Documentable(IF attributes = "empty" THEN <<>> ELSE <<"html">>)

from_typed_decl(d, document_private_items, attributes, interface_surface) ==
    CASE d.tag \in {"StructDeclaration", "EnumDeclaration", "TraitDeclaration",
                    "FunctionDeclaration", "ConstantDeclaration"} ->
             DescriptorOfItem(d, ~document_private_items
                                    /\ DeclEngineGet(d.decl_id).visibility = "Private",
                              attributes, interface_surface)
      [] d.tag \in {"AbiDeclaration", "StorageDeclaration"} ->
             DescriptorOfItem(d, FALSE, attributes, interface_surface)
      [] d.tag = "ImplTrait" -> DescriptorOfItem(d, FALSE, "empty", "empty")
      [] OTHER -> NonDocumentable

\* DeclRef::new(name, decl_id, decl_span)
DeclRef(name, decl_id, decl_span) ==
    [name |-> name, decl_id |-> decl_id, decl_span |-> decl_span]

\* GetDeclRef for TyDeclaration; the VariableDeclaration arm is todo!().
get_decl_ref(d) ==
    CASE d.tag = "VariableDeclaration" -> Aborted
      [] d.tag \in NamedHandleTags ->
             Returned(<<DeclRef(d.name, d.decl_id, d.decl_span)>>)
      [] d.tag = "GenericTypeForFunctionScope" -> Returned(<<>>)
      [] d.tag = "ErrorRecovery" -> Returned(<<>>)
      [] d.tag = "StorageDeclaration" -> Returned(<<>>)

\* The payloads elaboration stores before the queries: every kind, public and
\* private, over the placeholder, and an impl trait for the concrete shape.
QueryPayloads ==
    {VisiblePayload(k, 0, v) : k \in DeclKinds, v \in {"Public", "Private"}}
        \cup {VisiblePayload("impl trait", 2, "Public")}

(***************************************************************************)
(* The engines and the declarations of the rewriting calls.                *)
(***************************************************************************)
\* The type engine after the elaboration of a generic item: the placeholder
\* of its type parameter, the SelfType shape and a concrete shape.
GenericTypes == <<UnknownGeneric(Ident("a", "s1")), Unit("SelfType"), Unit("Boolean")>>

\* The payloads elaboration stores for generic items: declared over the
\* placeholder.
GenericPayloads == {Payload("struct", 0), Payload("function", 0), Payload("enum", 0)}

TypeSubstMaps ==
    {TypeSubstMap(0, 2), TypeSubstMap(0, 1), TypeSubstMap(1, 2), TypeSubstMap(2, 0)}

\* The implementing types that replace SelfType.
SelfTypes == {0, 2}

\* The payloads elaboration stores before types are asked for: every kind over
\* the placeholder, and a function over the concrete shape.
TypedPayloads == {Payload(k, 0) : k \in DeclKinds} \cup {Payload("function", 2)}

\* Every variant over the issued handles, named "a".
ArenaDeclarations ==
    {VariableDeclaration(TyVariableDeclaration(Ident("a", "s1"), "Immutable", t[1], t[2])) :
        t \in {<<0, 0>>, <<0, 1>>, <<2, 1>>}}
        \cup {NamedHandle(tag, Ident("a", "s1"), id, "s2") :
                tag \in NamedHandleTags, id \in DeclIds}
        \cup {StorageDeclaration(id, "s2") : id \in DeclIds}
        \cup {GenericTypeForFunctionScope(Ident("a", "s1"), t) : t \in TypeIds}
        \cup {ErrorRecovery("s1")}

(***************************************************************************)
(* CollectTypesMetadata for TyDeclaration.  The collections it delegates   *)
(* to (initializer, ascribed type, function payload, constant value) are   *)
(* inputs: each is a CompileResult of a metadata list.                     *)
(***************************************************************************)
MetadataOutcomes == {"ok", "err", "value with errors", "ok with warning"}

\* The result of a delegated collect_types_metadata on `what`.
Delegated(what, outcome) ==
    CASE outcome = "ok" -> ok(<<[of |-> what]>>, <<>>, <<>>, <<>>)
      [] outcome = "err" -> err(<<>>, <<[failed |-> what]>>, <<>>)
      [] outcome = "value with errors" ->
             ok(<<[of |-> what]>>, <<>>, <<[failed |-> what]>>, <<>>)
      [] outcome = "ok with warning" ->
             ok(<<[of |-> what]>>, <<[warned |-> what]>>, <<>>, <<>>)

\* A payload of a constant with or without a value expression.
TyConstantDeclaration(type_id, has_value) ==
    [kind |-> "constant", type_id |-> type_id, has_value |-> has_value]

\* An arm either returns from the function or gives the match its value.
EarlyReturn(result) == [returned |-> TRUE, result |-> result]
MatchValue(metadata, warnings, errors, lookups) ==
    [returned |-> FALSE, metadata |-> metadata, warnings |-> warnings,
     errors |-> errors, lookups |-> lookups]

\* check!(result, return err(warnings, errors), warnings, errors) on the
\* lists gathered so far.
CheckMetadata(result, warnings, errors, lookups) ==
    IF result.value = <<>>
    THEN EarlyReturn(err(warnings \o result.warnings, errors \o result.errors, lookups))
    ELSE MatchValue(result.value[1], warnings \o result.warnings,
                    errors \o result.errors, lookups)

\* collect_types_metadata: the VariableDeclaration arm
MetadataOfVariableAscriptionFirst(body, ascription) ==
    LET first == CheckMetadata(body, <<>>, <<>>, <<>>)
        second == CheckMetadata(ascription, first.warnings, first.errors, <<>>)
    IN  IF first.returned THEN first
        ELSE IF second.returned THEN second
        ELSE MatchValue(second.metadata \o first.metadata, second.warnings,
                        second.errors, <<>>)

MetadataOfVariable(body, ascription) ==
    LET first == CheckMetadata(body, <<>>, <<>>, <<>>)
        second == CheckMetadata(ascription, first.warnings, first.errors, <<>>)
    IN  IF first.returned THEN first
        ELSE IF second.returned THEN second
        ELSE MatchValue(first.metadata \o second.metadata, second.warnings,
                        second.errors, <<>>)

\* collect_types_metadata: the FunctionDeclaration arm
MetadataOfFunction(d, inner) ==
    LET decl == DeclEngineGetKind("function", d.decl_id, d.decl_span)
    IN  IF decl.ok THEN CheckMetadata(inner, <<>>, <<>>, <<d.decl_id>>)
        ELSE EarlyReturn(err(<<>>, <<decl.value>>, <<d.decl_id>>))

\* collect_types_metadata: the ConstantDeclaration arm
MetadataOfConstant(d, inner) ==
    LET decl == DeclEngineGetKind("constant", d.decl_id, d.decl_span)
    IN  IF ~decl.ok THEN EarlyReturn(err(<<>>, <<decl.value>>, <<d.decl_id>>))
        ELSE IF decl.value.has_value
        THEN CheckMetadata(inner, <<>>, <<>>, <<d.decl_id>>)
        ELSE EarlyReturn(ok(<<>>, <<>>, <<>>, <<d.decl_id>>))

\* collect_types_metadata: after the match
MetadataFinishOk(arm) ==
    IF arm.returned THEN arm.result
    ELSE ok(arm.metadata, arm.warnings, arm.errors, arm.lookups)

MetadataFinish(arm) ==
    IF arm.returned THEN arm.result
    ELSE IF arm.errors = <<>>
    THEN ok(arm.metadata, arm.warnings, arm.errors, arm.lookups)
    ELSE err(arm.warnings, arm.errors, arm.lookups)

\* TyDeclaration::collect_types_metadata
collect_types_metadata(d, body, ascription, inner) ==
    MetadataFinish(
        CASE d.tag = "VariableDeclaration" -> MetadataOfVariable(body, ascription)
          [] d.tag = "FunctionDeclaration" -> MetadataOfFunction(d, inner)
          [] d.tag = "ConstantDeclaration" -> MetadataOfConstant(d, inner)
          [] OTHER -> MatchValue(<<>>, <<>>, <<>>, <<>>))

\* The payloads stored before metadata is collected.
MetadataPayloads ==
    {Payload("function", 0), Payload("struct", 0),
     TyConstantDeclaration(0, TRUE), TyConstantDeclaration(0, FALSE)}

(***************************************************************************)
(* sway-fmt: the use statement helpers of traversal_helper.rs.  A string   *)
(* is a sequence of characters; an identifier, `self` and `::` are taken   *)
(* as one character each, with the width in bytes they have in the text.   *)
(***************************************************************************)
MAX_LINE_LENGTH == 100

\* The width of the long identifier of the checked lines.
LongIdentLen == 96

\* The most items of a brace group of the checked lines.
MaxItems == 3

WhitespaceChars == {" ", "\n"}
SeparatorChars == {",", "{", "}"}

\* str::len of one character, in bytes
CharLen(c) ==
    CASE c = "Long" -> LongIdentLen
      [] c = "self" -> 4
      [] c = "::" -> 2
      [] OTHER -> 1

\* The order of the first bytes: '\n' < ' ' < ',' < ':' < ';' < 'L' < 'a' <
\* 'b' < 'c' < 'd' < 's' < '{' < '}'.
CharRank(c) ==
    CASE c = "\n" -> 10
      [] c = " " -> 32
      [] c = "," -> 44
      [] c = "::" -> 58
      [] c = ";" -> 59
      [] c = "Long" -> 76
      [] c = "a" -> 97
      [] c = "b" -> 98
      [] c = "c" -> 99
      [] c = "d" -> 100
      [] c = "self" -> 115
      [] c = "{" -> 123
      [] c = "}" -> 125

RECURSIVE StrLen(_)
\* str::len
StrLen(s) == IF s = <<>> THEN 0 ELSE CharLen(Head(s)) + StrLen(Tail(s))

RECURSIVE StrConcat(_)
\* [String]::concat
StrConcat(strings) ==
    IF strings = <<>> THEN <<>> ELSE Head(strings) \o StrConcat(Tail(strings))

RECURSIVE StrJoin(_, _)
\* [String]::join(sep)
StrJoin(strings, sep) ==
    IF strings = <<>> THEN <<>>
    ELSE IF Len(strings) = 1 THEN strings[1]
    ELSE strings[1] \o sep \o StrJoin(Tail(strings), sep)

\* chars().filter(|c| !c.is_whitespace()).collect()
FilterWhitespace(s) == SelectSeq(s, LAMBDA c : c \notin WhitespaceChars)

RECURSIVE TrimStart(_)
TrimStart(s) ==
    IF s # <<>> /\ Head(s) \in WhitespaceChars THEN TrimStart(Tail(s)) ELSE s

RECURSIVE TrimEnd(_)
TrimEnd(s) ==
    IF s # <<>> /\ s[Len(s)] \in WhitespaceChars
    THEN TrimEnd(SubSeq(s, 1, Len(s) - 1)) ELSE s

\* str::trim
Trim(s) == TrimEnd(TrimStart(s))

RECURSIVE StrLess(_, _)
\* a.cmp(b) == Ordering::Less for two strings
StrLess(a, b) ==
    IF b = <<>> THEN FALSE
    ELSE IF a = <<>> THEN TRUE
    ELSE IF Head(a) = Head(b) THEN StrLess(Tail(a), Tail(b))
    ELSE CharRank(Head(a)) < CharRank(Head(b))

RECURSIVE TokenizeFrom(_, _, _, _)
\* tokenize: the loop over the separators, then the rest of the line
TokenizeFrom(line, index, current, buffer) ==
    IF index > Len(line)
    THEN IF current <= Len(line)
         THEN Append(buffer, SubSeq(line, current, Len(line)))
         ELSE buffer
    ELSE IF line[index] \in SeparatorChars
    THEN LET to_push == FilterWhitespace(SubSeq(line, current, index - 1))
             pushed == IF index # current /\ to_push # <<>>
                       THEN Append(buffer, to_push) ELSE buffer
         IN  TokenizeFrom(line, index + 1, index + 1, Append(pushed, <<line[index]>>))
    ELSE TokenizeFrom(line, index + 1, current, buffer)

\* tokenize(line)
tokenize(line) == TokenizeFrom(line, 1, 1, <<>>)

\* The comparator of buffer.sort_by: Less when a is "self", Greater when b is,
\* a.cmp(b) otherwise; SortsBefore is "the comparator says Less".
SortsBeforeByCmp(a, b) == StrLess(a, b)

SortsBefore(a, b) ==
    IF a = <<"self">> THEN TRUE
    ELSE IF b = <<"self">> THEN FALSE
    ELSE StrLess(a, b)

RECURSIVE InsertSorted(_, _)
\* The stable sort moves an element left while it compares Less than its
\* left neighbour.
InsertSorted(sorted, x) ==
    IF sorted # <<>> /\ SortsBefore(x, sorted[Len(sorted)])
    THEN Append(InsertSorted(SubSeq(sorted, 1, Len(sorted) - 1), x), sorted[Len(sorted)])
    ELSE Append(sorted, x)

RECURSIVE SortBy(_)
\* buffer.sort_by(..)
SortBy(buffer) ==
    IF buffer = <<>> THEN <<>>
    ELSE InsertSorted(SortBy(SubSeq(buffer, 1, Len(buffer) - 1)), buffer[Len(buffer)])

\* sort_imports: the "}" arm
CloseGroup(buffer) ==
    IF Len(buffer) > 1
    THEN <<(<<"{">> \o StrJoin(SortBy(buffer), <<",", " ">>) \o <<"}">>)>>
    ELSE SortBy(buffer)

\* sort_imports: the "{" arm, after the inner call
MergeInner(buffer, inner_buffer) ==
    IF inner_buffer = <<>> THEN buffer
    ELSE IF buffer # <<>>
    THEN [buffer EXCEPT ![Len(buffer)] = @ \o inner_buffer[1]]
    ELSE inner_buffer

RECURSIVE sort_imports(_, _, _)
\* sort_imports(tokens, buffer): at is the position of the iterator; the
\* result is the position it is left at and the buffer.
sort_imports(tokens, at, buffer) ==
    IF at > Len(tokens) THEN [at |-> at, buffer |-> buffer]
    ELSE LET token == Trim(tokens[at])
         IN  CASE token = <<",">> -> sort_imports(tokens, at + 1, buffer)
               [] token = <<"{">> ->
                      LET inner == sort_imports(tokens, at + 1, <<>>)
                      IN  sort_imports(tokens, inner.at, MergeInner(buffer, inner.buffer))
               [] token = <<"}">> -> [at |-> at + 1, buffer |-> CloseGroup(buffer)]
               [] OTHER -> sort_imports(tokens, at + 1, Append(buffer, token))

\* sort_and_filter_use_expression(line)
sort_and_filter_use_expression(line) ==
    StrConcat(sort_imports(tokenize(line), 1, <<>>).buffer)

\* The line break of format_use_stmnt_length, "\n    ", as one character.
LineBreak == "\n    "

\* format_use_stmnt_length: the test that ends a line
BreaksWhenLong(line, open_delims) ==
    /\ StrLen(line) >= MAX_LINE_LENGTH
    /\ Trim(line) # <<>> /\ Trim(line)[Len(Trim(line))] = ","

BreaksHere(line, open_delims) ==
    /\ StrLen(line) >= MAX_LINE_LENGTH
    /\ Trim(line) # <<>> /\ Trim(line)[Len(Trim(line))] = ","
    /\ open_delims <= 1

\* format_use_stmnt_length: a comma with a token after it gets a space
UnspacedToken(tokens, at) == tokens[at]

SpacedToken(tokens, at) ==
    IF tokens[at] = <<",">> /\ at < Len(tokens) THEN <<",", " ">> ELSE tokens[at]

RECURSIVE FormatLengthFrom(_, _, _, _, _)
\* format_use_stmnt_length: the loop over the tokens; open_delims is a u8
\* (a "}" at zero wraps, or panics in a debug build).
FormatLengthFrom(tokens, at, line, open_delims, with_newline) ==
    IF at > Len(tokens)
    THEN IF line # <<>> THEN Append(with_newline, line) ELSE with_newline
    ELSE LET opened == CASE tokens[at] = <<"{">> -> (open_delims + 1) % 256
                         [] tokens[at] = <<"}">> -> (open_delims + 255) % 256
                         [] OTHER -> open_delims
             token == SpacedToken(tokens, at)
             pushed == line \o token
         IN  IF BreaksHere(pushed, opened)
             THEN FormatLengthFrom(tokens, at + 1, <<>>, opened,
                                   Append(with_newline, Append(pushed, LineBreak)))
             ELSE FormatLengthFrom(tokens, at + 1, pushed, opened, with_newline)

\* format_use_stmnt_length(s)
format_use_stmnt_length(s) == FormatLengthFrom(tokenize(s), 1, <<>>, 0, <<>>)

(***************************************************************************)
(* The use paths that are formatted: `a::{items};`, an item being an       *)
(* identifier, `self`, or `d::{identifiers}`, written tightly, with        *)
(* whitespace around the separators, or with trailing commas.              *)
(***************************************************************************)
Leaf(name) == [name |-> name, group |-> <<>>]
Nested(group) == [name |-> "d", group |-> group]

LeafNames == {"a", "b", "self", "Long"}
NestedGroups ==
    {<<"b">>, <<"Long">>, <<"b", "a">>, <<"a", "self">>, <<"self", "b">>, <<"b", "Long">>}

UseItems == {Leaf(n) : n \in LeafNames} \cup {Nested(g) : g \in NestedGroups}

UseTrees == UNION {[1..n -> UseItems] : n \in 1..MaxItems}

UseStyles == {"tight", "spaced", "trailing comma"}

\* The text of a brace group whose items are already written.
WriteGroup(items, style) ==
    CASE style = "tight" -> <<"{">> \o StrJoin(items, <<",">>) \o <<"}">>
      [] style = "spaced" ->
             <<"{", " ">> \o StrJoin(items, <<" ", ",", " ">>) \o <<" ", "}">>
      [] style = "trailing comma" ->
             <<"{", "\n", " ">> \o StrJoin(items, <<",", "\n", " ">>)
                 \o <<",", "\n", "}">>

WriteItem(item, style) ==
    IF item.group = <<>> THEN <<item.name>>
    ELSE <<item.name, "::">>
             \o WriteGroup([i \in DOMAIN item.group |-> <<item.group[i]>>], style)

WriteUse(tree, style) ==
    <<"a", "::">> \o WriteGroup([i \in DOMAIN tree |-> WriteItem(tree[i], style)], style)
        \o <<";">>

(***************************************************************************)
(* sway-parse: TopLevelStatement::parse.  The token stream is a sequence   *)
(* of `#`, the bracket groups [a] and [b] of an attribute, the tokens of   *)
(* an item taken as one, and a token that starts neither.                  *)
(***************************************************************************)
\* The most tokens of a parsed stream.
MaxTokens == 5

ParserTokens == {"#", "[a]", "[b]", "fn", "junk"}

TokenStreams == UNION {[1..n -> ParserTokens] : n \in 0..MaxTokens}

\* parser.peek::<HashToken>().is_some()
PeekHashToken(tokens, at) == at <= Len(tokens) /\ tokens[at] = "#"

\* parser.parse::<AttributeDecl>(): `#` and a bracket group.
ParseAttributeDecl(tokens, at) ==
    IF at + 1 <= Len(tokens) /\ tokens[at] = "#" /\ tokens[at + 1] \in {"[a]", "[b]"}
    THEN [ok |-> TRUE, value |-> [attribute |-> tokens[at + 1], at |-> at], at |-> at + 2]
    ELSE [ok |-> FALSE, value |-> [expected |-> "attribute", at |-> at], at |-> at]

\* parser.parse::<Item>()
ParseItem(tokens, at) ==
    IF at <= Len(tokens) /\ tokens[at] = "fn"
    THEN [ok |-> TRUE, value |-> [item |-> "fn", at |-> at], at |-> at + 1]
    ELSE [ok |-> FALSE, value |-> [expected |-> "item", at |-> at], at |-> at]

\* attribute_list.push(..)
AttributeListPushFront(attribute_list, attribute) == <<attribute>> \o attribute_list

AttributeListPush(attribute_list, attribute) == Append(attribute_list, attribute)

TopLevelStatement(attribute_list, item) ==
    [attribute_list |-> attribute_list, item |-> item]

\* The parser in TopLevelStatement::parse: in the loop, at the item, returned.
Parsing(tokens, at, attribute_list, pc, result) ==
    [op |-> "parse", tokens |-> tokens, at |-> at, attribute_list |-> attribute_list,
     pc |-> pc, result |-> result]

(***************************************************************************)
(* sway-fmt: custom_format_with_comments.  The text is a sequence of the   *)
(* characters `/`, `*`, newline and a letter.  A character of the result   *)
(* remembers the index of the text it was copied from by the scanner, or 0 *)
(* when custom_format_fn pushed it.                                        *)
(***************************************************************************)
\* The most characters of a scanned text.
MaxText == 5

\* The most characters custom_format_fn takes from the iterator in one call.
MaxConsumed == 1

TextChars == {"/", "*", "\n", "x"}

Texts == UNION {[1..n -> TextChars] : n \in 0..MaxText}

\* The state of the scan: the position of iter, the two flags, the result,
\* the indices the scanner consumed inside comments (delimiters included) and
\* the indices custom_format_fn was called on.
Scanning(text, iter, is_curr_comment, is_curr_multi_comment, result, in_comment, called) ==
    [op |-> "scan", text |-> text, iter |-> iter,
     is_curr_comment |-> is_curr_comment,
     is_curr_multi_comment |-> is_curr_multi_comment,
     result |-> result, in_comment |-> in_comment, called |-> called]

\* result.push(c) of the character at index i of the text
Copied(text, i) == [c |-> text[i], from |-> i]

\* iter.peek() is the character c
PeekIs(s, c) == s.iter + 1 <= Len(s.text) /\ s.text[s.iter + 1] = c

\* The is_curr_comment branch
StepLineComment(s) ==
    Scanning(s.text, s.iter + 1, s.text[s.iter] # "\n", FALSE,
             Append(s.result, Copied(s.text, s.iter)),
             Append(s.in_comment, s.iter), s.called)

\* The is_curr_multi_comment branch
StepBlockCommentDroppingSlash(s) ==
    IF s.text[s.iter] = "*" /\ PeekIs(s, "/")
    THEN Scanning(s.text, s.iter + 2, FALSE, FALSE,
                  Append(s.result, Copied(s.text, s.iter)),
                  s.in_comment \o <<s.iter, s.iter + 1>>, s.called)
    ELSE Scanning(s.text, s.iter + 1, FALSE, TRUE,
                  Append(s.result, Copied(s.text, s.iter)),
                  Append(s.in_comment, s.iter), s.called)

StepBlockComment(s) ==
    IF s.text[s.iter] = "*" /\ PeekIs(s, "/")
    THEN Scanning(s.text, s.iter + 2, FALSE, FALSE,
                  s.result \o <<Copied(s.text, s.iter), Copied(s.text, s.iter + 1)>>,
                  s.in_comment \o <<s.iter, s.iter + 1>>, s.called)
    ELSE Scanning(s.text, s.iter + 1, FALSE, TRUE,
                  Append(s.result, Copied(s.text, s.iter)),
                  Append(s.in_comment, s.iter), s.called)

\* The branch outside comments when a comment starts: push_str("//") or
\* push_str("/*"), iter.next(), set the flag.
StepOpenComment(s) ==
    Scanning(s.text, s.iter + 2, PeekIs(s, "/"), PeekIs(s, "*"),
             s.result \o <<Copied(s.text, s.iter), Copied(s.text, s.iter + 1)>>,
             s.in_comment \o <<s.iter, s.iter + 1>>, s.called)

\* custom_format_fn(text, &mut result, current_char, &mut iter): it pushes what
\* it likes and may take characters from the iterator, as the callback of
\* format_data_types does (clean_all_whitespace, get_data_field_type).
StepCustomFormat(s, consumed) ==
    Scanning(s.text, s.iter + 1 + consumed, FALSE, FALSE,
             s.result \o [i \in 1..(1 + consumed) |-> [c |-> s.text[s.iter + i - 1], from |-> 0]],
             s.in_comment, Append(s.called, s.iter))

(***************************************************************************)
(* forc: `forc run`.  The state of a call of run(command): where it is,    *)
(* the requests it has sent to the node with their outcomes, and its       *)
(* result once it has returned.                                            *)
(***************************************************************************)
RunCommands ==
    [dry_run : BOOLEAN, data : {"hex", "not hex"}, pretty_print : BOOLEAN,
     verbose : BOOLEAN]

\* What the node answers to receipts(id).
ReceiptLists == {<<>>, <<"Return">>, <<"Log", "Return">>}

Running(command, pc, built, node, result) ==
    [op |-> "run", command |-> command, pc |-> pc, built |-> built, node |-> node,
     result |-> result]

\* The request sent to the node and how it ended.
Request(name, succeeded) == [request |-> name, ok |-> succeeded]

RunOk(receipts) == [returned |-> "Ok", value |-> receipts]
RunErr(error) == [returned |-> "Err", value |-> error]
RunPanic(message) == [returned |-> "panic", value |-> message]

\* A step of the call that ends it with a result.
Return(s, result) == [s EXCEPT !.pc = "returned", !.result = result]

\* A step that goes on to pc.
Goto(s, pc) == [s EXCEPT !.pc = pc]

\* try_send_tx: match client.health().await
SubmitWhateverHealth(s, healthy) ==
    Goto([s EXCEPT !.node = Append(@, Request("health", healthy))], "submit")

HealthChecked(s, healthy) ==
    LET asked == [s EXCEPT !.node = Append(@, Request("health", healthy))]
    IN  IF healthy THEN Goto(asked, "submit")
        ELSE Return(asked, RunErr("fuel_core_not_running"))

\* send_tx: client.submit(tx), the first half of the and_then chain
Submitted(s, accepted) ==
    LET asked == [s EXCEPT !.node = Append(@, Request("submit", accepted))]
    IN  IF accepted THEN Goto(asked, "receipts")
        ELSE Return(asked, RunErr("submit"))

\* send_tx: client.receipts(id), then Ok(logs) or bail!
ReceiptsAsked(s, answer) ==
    LET asked == [s EXCEPT !.node = Append(@, Request("receipts", answer.ok))]
    IN  IF answer.ok THEN Return(asked, RunOk(answer.value))
        ELSE Return(asked, RunErr("receipts"))

(***************************************************************************)
(* The state machine.                                                      *)
(***************************************************************************)
Init ==
    /\ type_slab = <<>>
    /\ decl_slab = <<>>
    /\ last = [op |-> "none"]

\* `last` holds the outcome of the most recent query.  A query reads the engines
\* and changes nothing, so it is taken from a state with no outcome recorded;
\* an insertion drops the recorded outcome.
Idle == last.op = "none"

\* TypeEngine::insert: the shape is appended and its index is the handle.
TypeEngineInsert(ty) ==
    /\ Len(type_slab) < MaxTypes
    /\ type_slab' = Append(type_slab, ty)
    /\ last' = [op |-> "none"]
    /\ UNCHANGED decl_slab

\* Two shapes are compared and hashed, as a hash map keyed by TypeInfo does.
TypeInfoCompare(l, r) ==
    /\ last' = [op |-> "type_eq", l |-> l, r |-> r,
                eq |-> TypeInfoEq(l, r),
                hash_l |-> TypeInfoHash(l), hash_r |-> TypeInfoHash(r)]
    /\ UNCHANGED <<type_slab, decl_slab>>

NextTypeEngine ==
    \/ \E ty \in StoredTypeInfos : TypeEngineInsert(ty)
    \/ Idle /\ \E l \in TypeInfos, r \in TypeInfos : TypeInfoCompare(l, r)

SpecTypeEngine == Init /\ [][NextTypeEngine]_vars

\* The declaration queries start from an elaborated type engine.
InitDeclaration ==
    /\ type_slab \in ElaboratedTypes
    /\ decl_slab = <<>>
    /\ last = [op |-> "none"]

\* DeclEngine::insert
DeclEngineInsert(p) ==
    /\ Len(decl_slab) < MaxDecls
    /\ decl_slab' = Append(decl_slab, p)
    /\ last' = [op |-> "none"]
    /\ UNCHANGED type_slab

\* A call of d.expect_<kind>(decl_engine, access_span).
ExpectCall(kind, d, access_span) ==
    /\ last' = [op |-> "expect", kind |-> kind, d |-> d, access_span |-> access_span,
                result |-> Expect(kind, d, access_span)]
    /\ UNCHANGED <<type_slab, decl_slab>>

\* A call of l.eq(r, engines) with the hashes of both sides.
TyDeclarationCompare(l, r) ==
    /\ last' = [op |-> "decl_eq", l |-> l, r |-> r, eq |-> TyDeclarationEq(l, r),
                hash_l |-> TyDeclarationHash(l), hash_r |-> TyDeclarationHash(r)]
    /\ UNCHANGED <<type_slab, decl_slab>>

NextExpect ==
    \/ \E p \in ElaboratedPayloads : DeclEngineInsert(p)
    \/ Idle /\ \E kind \in ExpectKinds, d \in TyDeclarations, access_span \in Spans :
                 ExpectCall(kind, d, access_span)

SpecExpect == InitDeclaration /\ [][NextExpect]_vars

NextDeclarationEq ==
    \/ \E p \in ElaboratedPayloads : DeclEngineInsert(p)
    \/ Idle /\ \E l \in TyDeclarations, r \in OtherTyDeclarations :
                 TyDeclarationCompare(l, r)

SpecDeclarationEq == InitDeclaration /\ [][NextDeclarationEq]_vars

\* The rewriting calls start from the engines of a generic item.
InitArena ==
    /\ type_slab = GenericTypes
    /\ decl_slab = <<>>
    /\ last = [op |-> "none"]

\* A call that stores something leaves engines no insertion has left, so the
\* next call is taken from its outcome; a call that stores nothing leaves the
\* engines as they were, where every call has been taken already.
Settled ==
    \/ Idle
    \/ /\ last.op \in {"subst", "replace_self_type", "return_type"}
       /\ (decl_slab # last.decl_before \/ type_slab # last.type_before)

\* A call of d.subst_inner(type_mapping, engines).
SubstCall(d, type_mapping) ==
    /\ Len(subst_inner(d, type_mapping).decl_slab) <= MaxArenaDecls
    /\ decl_slab' = subst_inner(d, type_mapping).decl_slab
    /\ last' = [op |-> "subst", d |-> d, type_mapping |-> type_mapping,
                after |-> subst_inner(d, type_mapping).d,
                decl_before |-> decl_slab, type_before |-> type_slab]
    /\ UNCHANGED type_slab

\* A call of d.replace_self_type(engines, self_type).
ReplaceSelfTypeCall(d, self_type) ==
    /\ Len(replace_self_type(d, self_type).decl_slab) <= MaxArenaDecls
    /\ decl_slab' = replace_self_type(d, self_type).decl_slab
    /\ last' = [op |-> "replace_self_type", d |-> d, self_type |-> self_type,
                after |-> replace_self_type(d, self_type).d,
                decl_before |-> decl_slab, type_before |-> type_slab]
    /\ UNCHANGED type_slab

\* A call of d.return_type(engines, access_span).
ReturnTypeCall(d, access_span) ==
    /\ Len(return_type(d, access_span).type_slab) <= MaxArenaTypes
    /\ type_slab' = return_type(d, access_span).type_slab
    /\ last' = [op |-> "return_type", d |-> d, access_span |-> access_span,
                result |-> return_type(d, access_span).result,
                decl_before |-> decl_slab, type_before |-> type_slab]
    /\ UNCHANGED decl_slab

NextArena ==
    \/ \E p \in GenericPayloads : DeclEngineInsert(p)
    \/ Settled /\ \E d \in ArenaDeclarations, type_mapping \in TypeSubstMaps :
                    SubstCall(d, type_mapping)
    \/ Settled /\ \E d \in ArenaDeclarations, self_type \in SelfTypes :
                    ReplaceSelfTypeCall(d, self_type)
    \/ Settled /\ \E d \in ArenaDeclarations, access_span \in Spans :
                    ReturnTypeCall(d, access_span)

SpecArena == InitArena /\ [][NextArena]_vars

NextReturnType ==
    \/ \E p \in TypedPayloads : DeclEngineInsert(p)
    \/ Settled /\ \E d \in ArenaDeclarations, access_span \in Spans :
                    ReturnTypeCall(d, access_span)

SpecReturnType == InitArena /\ [][NextReturnType]_vars

\* A call of d.visibility(decl_engine).
VisibilityCall(d) ==
    /\ last' = [op |-> "visibility", d |-> d, result |-> visibility(d)]
    /\ UNCHANGED <<type_slab, decl_slab>>

\* A call of d.friendly_name(engines).
FriendlyNameCall(d) ==
    /\ last' = [op |-> "friendly_name", d |-> d, result |-> friendly_name(d)]
    /\ UNCHANGED <<type_slab, decl_slab>>

\* The documentation generator classifies d; doc_name is what d.doc_name()
\* gives when it is called on d.
DocCall(d, document_private_items, attributes, interface_surface) ==
    /\ last' = [op |-> "doc", d |-> d, document_private_items |-> document_private_items,
                attributes |-> attributes, interface_surface |-> interface_surface,
                descriptor |-> from_typed_decl(d, document_private_items, attributes,
                                               interface_surface),
                doc_name |-> doc_name(d)]
    /\ UNCHANGED <<type_slab, decl_slab>>

\* A call of d.get_decl_ref().
GetDeclRefCall(d) ==
    /\ last' = [op |-> "get_decl_ref", d |-> d, result |-> get_decl_ref(d)]
    /\ UNCHANGED <<type_slab, decl_slab>>

NextQueries ==
    \/ \E p \in QueryPayloads : DeclEngineInsert(p)
    \/ Idle /\ \E d \in TyDeclarations : VisibilityCall(d)
    \/ Idle /\ \E d \in TyDeclarations : FriendlyNameCall(d)
    \/ Idle /\ \E d \in TyDeclarations, document_private_items \in BOOLEAN,
                    attributes \in AttributesMaps :
                 \E interface_surface \in InterfaceSurfaces(d) :
                     DocCall(d, document_private_items, attributes, interface_surface)
    \/ Idle /\ \E d \in TyDeclarations : GetDeclRefCall(d)

SpecQueries == InitArena /\ [][NextQueries]_vars

\* A call of d.collect_types_metadata(ctx); body, ascription and inner are
\* what the delegated collections return when they are called.
CollectTypesMetadataCall(d, body, ascription, inner) ==
    /\ last' = [op |-> "collect_types_metadata", d |-> d, body |-> body,
                ascription |-> ascription, inner |-> inner,
                result |-> collect_types_metadata(d, body, ascription, inner)]
    /\ UNCHANGED <<type_slab, decl_slab>>

NextMetadata ==
    \/ \E p \in MetadataPayloads : DeclEngineInsert(p)
    \/ Idle /\ \E d \in ArenaDeclarations, b, a, i \in MetadataOutcomes :
                 CollectTypesMetadataCall(d, Delegated("body", b),
                                          Delegated("type_ascription", a),
                                          Delegated("payload", i))

SpecMetadata == InitArena /\ [][NextMetadata]_vars

\* A use path as it is written in the source, before it is formatted.
InitUse ==
    /\ type_slab = <<>>
    /\ decl_slab = <<>>
    /\ \E tree \in UseTrees, style \in UseStyles :
           last = [op |-> "use", tree |-> tree, line |-> WriteUse(tree, style)]

\* format_use_statement: right = sort_and_filter_use_expression(right)
SortAndFilterCall ==
    /\ last.op = "use"
    /\ last' = [op |-> "sort_and_filter_use_expression", tree |-> last.tree,
                line |-> last.line,
                result |-> sort_and_filter_use_expression(last.line)]
    /\ UNCHANGED <<type_slab, decl_slab>>

\* format_use_statement: lines = format_use_stmnt_length(&right)
FormatUseStmntLengthCall ==
    /\ last.op = "sort_and_filter_use_expression"
    /\ last' = [op |-> "format_use_stmnt_length", tree |-> last.tree,
                s |-> last.result, lines |-> format_use_stmnt_length(last.result)]
    /\ UNCHANGED <<type_slab, decl_slab>>

NextUse ==
    \/ SortAndFilterCall
    \/ FormatUseStmntLengthCall

SpecUse == InitUse /\ [][NextUse]_vars

\* TopLevelStatement::parse is entered on a token stream.
InitParse ==
    /\ type_slab = <<>>
    /\ decl_slab = <<>>
    /\ \E tokens \in TokenStreams : last = Parsing(tokens, 1, <<>>, "loop", <<>>)

\* The loop body when a `#` is next: attribute_list.push(parser.parse()?)
ParseAttribute ==
    /\ last.op = "parse" /\ last.pc = "loop"
    /\ PeekHashToken(last.tokens, last.at)
    /\ LET parsed == ParseAttributeDecl(last.tokens, last.at)
       IN  last' = IF parsed.ok
                   THEN Parsing(last.tokens, parsed.at,
                                AttributeListPush(last.attribute_list, parsed.value),
                                "loop", <<>>)
                   ELSE Parsing(last.tokens, parsed.at, last.attribute_list, "done",
                                [ok |-> FALSE, value |-> parsed.value])
    /\ UNCHANGED <<type_slab, decl_slab>>

\* The loop body otherwise: break
ParseBreak ==
    /\ last.op = "parse" /\ last.pc = "loop"
    /\ ~PeekHashToken(last.tokens, last.at)
    /\ last' = [last EXCEPT !.pc = "item"]
    /\ UNCHANGED <<type_slab, decl_slab>>

\* let item = parser.parse()?; Ok(TopLevelStatement { attribute_list, item })
ParseItemAndReturn ==
    /\ last.op = "parse" /\ last.pc = "item"
    /\ LET parsed == ParseItem(last.tokens, last.at)
       IN  last' = Parsing(last.tokens, parsed.at, last.attribute_list, "done",
                           IF parsed.ok
                           THEN [ok |-> TRUE,
                                 value |-> TopLevelStatement(last.attribute_list,
                                                             parsed.value)]
                           ELSE [ok |-> FALSE, value |-> parsed.value])
    /\ UNCHANGED <<type_slab, decl_slab>>

NextParse ==
    \/ ParseAttribute
    \/ ParseBreak
    \/ ParseItemAndReturn

\* The call runs to its return: nothing suspends it.
SpecParse == InitParse /\ [][NextParse]_vars /\ WF_vars(NextParse)

\* custom_format_with_comments is entered on a text.
InitScan ==
    /\ type_slab = <<>>
    /\ decl_slab = <<>>
    /\ \E text \in Texts : last = Scanning(text, 1, FALSE, FALSE, <<>>, <<>>, <<>>)

ScanNext == last.op = "scan" /\ last.iter <= Len(last.text)

\* while let Some(..) = iter.next(): in a line comment
ScanLineComment ==
    /\ ScanNext /\ last.is_curr_comment
    /\ last' = StepLineComment(last)
    /\ UNCHANGED <<type_slab, decl_slab>>

\* in a block comment
ScanBlockComment ==
    /\ ScanNext /\ ~last.is_curr_comment /\ last.is_curr_multi_comment
    /\ last' = StepBlockComment(last)
    /\ UNCHANGED <<type_slab, decl_slab>>

\* outside comments, at `//` or `/*`
ScanOpenComment ==
    /\ ScanNext /\ ~last.is_curr_comment /\ ~last.is_curr_multi_comment
    /\ last.text[last.iter] = "/" /\ (PeekIs(last, "/") \/ PeekIs(last, "*"))
    /\ last' = StepOpenComment(last)
    /\ UNCHANGED <<type_slab, decl_slab>>

\* outside comments, at any other character
ScanCustomFormat(consumed) ==
    /\ ScanNext /\ ~last.is_curr_comment /\ ~last.is_curr_multi_comment
    /\ ~(last.text[last.iter] = "/" /\ (PeekIs(last, "/") \/ PeekIs(last, "*")))
    /\ last.iter + consumed <= Len(last.text)
    /\ last' = StepCustomFormat(last, consumed)
    /\ UNCHANGED <<type_slab, decl_slab>>

NextScan ==
    \/ ScanLineComment
    \/ ScanBlockComment
    \/ ScanOpenComment
    \/ \E consumed \in 0..MaxConsumed : ScanCustomFormat(consumed)

\* The loop runs until the iterator is empty: nothing suspends it.
SpecScan == InitScan /\ [][NextScan]_vars /\ WF_vars(NextScan)

\* run(command) is entered.
InitRun ==
    /\ type_slab = <<>>
    /\ decl_slab = <<>>
    /\ \E command \in RunCommands : last = Running(command, "manifest", FALSE, <<>>, <<>>)

RunAt(pc) == last.op = "run" /\ last.pc = pc

\* current_dir, ManifestFile::from_dir and check_program_type, each with `?`
RunManifest(outcome) ==
    /\ RunAt("manifest")
    /\ last' = IF outcome = "ok" THEN Goto(last, "data") ELSE Return(last, RunErr(outcome))
    /\ UNCHANGED <<type_slab, decl_slab>>

\* hex::decode(data).expect("Invalid hex")
RunDecodeData ==
    /\ RunAt("data")
    /\ last' = IF last.command.data = "hex" THEN Goto(last, "build")
               ELSE Return(last, RunPanic("Invalid hex"))
    /\ UNCHANGED <<type_slab, decl_slab>>

\* forc_build::build(build_command)?
RunBuild(compiled) ==
    /\ RunAt("build")
    /\ last' = IF compiled THEN Goto([last EXCEPT !.built = TRUE], "tx")
               ELSE Return(last, RunErr("build"))
    /\ UNCHANGED <<type_slab, decl_slab>>

\* The transaction is created; if command.dry_run { Ok(vec![]) }
RunDryRun ==
    /\ RunAt("tx") /\ last.command.dry_run
    /\ last' = Return(last, RunOk(<<>>))
    /\ UNCHANGED <<type_slab, decl_slab>>

\* else: try_send_tx, FuelClient::new(node_url)?
RunNewClient(created) ==
    /\ RunAt("tx") /\ ~last.command.dry_run
    /\ last' = IF created THEN Goto(last, "health") ELSE Return(last, RunErr("client"))
    /\ UNCHANGED <<type_slab, decl_slab>>

\* client.health().await
RunHealth(healthy) ==
    /\ RunAt("health")
    /\ last' = HealthChecked(last, healthy)
    /\ UNCHANGED <<type_slab, decl_slab>>

\* client.submit(tx)
RunSubmit(accepted) ==
    /\ RunAt("submit")
    /\ last' = Submitted(last, accepted)
    /\ UNCHANGED <<type_slab, decl_slab>>

\* .and_then(|_| client.receipts(id))
RunReceipts(answer) ==
    /\ RunAt("receipts")
    /\ last' = ReceiptsAsked(last, answer)
    /\ UNCHANGED <<type_slab, decl_slab>>

NextRun ==
    \/ \E outcome \in {"ok", "current_dir", "manifest", "not a script"} : RunManifest(outcome)
    \/ RunDecodeData
    \/ \E compiled \in BOOLEAN : RunBuild(compiled)
    \/ RunDryRun
    \/ \E created \in BOOLEAN : RunNewClient(created)
    \/ \E healthy \in BOOLEAN : RunHealth(healthy)
    \/ \E accepted \in BOOLEAN : RunSubmit(accepted)
    \/ \E answer \in {[ok |-> FALSE, value |-> <<>>]}
                        \cup {[ok |-> TRUE, value |-> r] : r \in ReceiptLists} :
           RunReceipts(answer)

SpecRun == InitRun /\ [][NextRun]_vars

(***************************************************************************)
(* Properties of TypeInfo equality and hashing.                            *)
(***************************************************************************)
Compared == last.op = "type_eq"

\* The shape behind a handle with every nested handle replaced by the shape
\* behind it: what the handle resolves to, independent of the handles used.
RECURSIVE Resolved(_)
Resolved(id) ==
    LET ty == look_up_type_id(id)
    IN  CASE ty.tag = "Tuple" ->
               [tag |-> "Tuple",
                fields |-> [i \in 1 .. Len(ty.fields) |-> Resolved(ty.fields[i].type_id)]]
          [] ty.tag = "Array" ->
               [tag |-> "Array", elem |-> Resolved(ty.elem_ty), count |-> ty.count]
          [] OTHER -> ty

\* C7: for all TypeInfo values k1, k2, k1 == k2 implies hash(k1) == hash(k2).
C7_EqImpliesSameHash ==
    (Compared /\ last.eq) => last.hash_l = last.hash_r

\* The shape Ref(id1) was compared, id1 holds Ref(id0) and id0 holds a shape t
\* that is not a Ref.
RefOfRefCompared ==
    /\ Compared
    /\ last.l.tag = "Ref"
    /\ TypeEngineGet(last.l.id).tag = "Ref"
    /\ TypeEngineGet(TypeEngineGet(last.l.id).id).tag # "Ref"

RefOfRefTarget == TypeEngineGet(TypeEngineGet(last.l.id).id)

C9_EqualThroughDifferentHandles ==
    Compared =>
        /\ (/\ last.l.tag = "Ref" /\ last.r.tag = "Ref"
            /\ Resolved(last.l.id) = Resolved(last.r.id)) => last.eq
        /\ (/\ last.l.tag = "Array" /\ last.r.tag = "Array"
            /\ last.l.count = last.r.count
            /\ Resolved(last.l.elem_ty) = Resolved(last.r.elem_ty)) => last.eq
        /\ (/\ last.l.tag = "Tuple" /\ last.r.tag = "Tuple"
            /\ Len(last.l.fields) = Len(last.r.fields)
            /\ \A i \in 1 .. Len(last.l.fields) :
                  Resolved(last.l.fields[i].type_id) = Resolved(last.r.fields[i].type_id))
               => last.eq

\* Two arrays over different handles that hold the same shape were found equal.
C9_Witness ==
    /\ Compared
    /\ last.l.tag = "Array" /\ last.r.tag = "Array"
    /\ last.l.elem_ty # last.r.elem_ty
    /\ TypeEngineGet(last.l.elem_ty) = TypeEngineGet(last.r.elem_ty)
    /\ last.eq

\* C10: two TypeInfo values of different variants are never equal.
C10_DifferentVariantsUnequal ==
    (Compared /\ last.l.tag # last.r.tag) => ~last.eq

\* A Ref was compared with the non-Ref shape its chain ends at, and found unequal.
C10_Witness ==
    /\ Compared
    /\ last.l.tag = "Ref"
    /\ last.r = look_up_type_id(last.l.id)
    /\ ~last.eq

(***************************************************************************)
(* Claims about the checked downcasts, under SpecExpect.                   *)
(***************************************************************************)
Expected == last.op = "expect"

\* C1: expect_<kind> on an ErrorRecovery declaration fails with no value, no
\* error and no warning, whatever the span and the engine hold.
C1_ErrorRecoveryFailsSilently ==
    (Expected /\ last.d.tag = "ErrorRecovery") =>
        /\ last.result.value = <<>>
        /\ last.result.errors = <<>>
        /\ last.result.warnings = <<>>

C1_Witness ==
    /\ Expected
    /\ last.d = ErrorRecovery("s2")
    /\ last.kind = "struct"
    /\ Len(decl_slab) = MaxDecls
    /\ last.result.value = <<>>

\* C2: expect_<kind> on a declaration of another variant, not ErrorRecovery,
\* fails with exactly one DeclIsNotA<kind> error whose `actually` is the
\* declaration's friendly_type_name and whose span is the declaration's own
\* span, and resolves no handle.
C2_MismatchReportsOwnSpan ==
    (Expected /\ last.d.tag \notin {ExpectedTag(last.kind), "ErrorRecovery"}) =>
        /\ last.result.value = <<>>
        /\ last.result.warnings = <<>>
        /\ last.result.errors =
               <<DeclIsNotA(last.kind, friendly_type_name(last.d), span(last.d))>>
        /\ last.result.lookups = <<>>

C2_Witness ==
    /\ Expected
    /\ last.kind = "enum"
    /\ last.d.tag = "FunctionDeclaration"
    /\ last.d.decl_span = "s2"
    /\ last.access_span = "s1"
    /\ Len(last.result.errors) = 1
    /\ last.result.errors[1].actually = "function"
    /\ last.result.errors[1].span = "s2"

\* C3: expect_<kind> on a declaration of the matching variant returns the
\* payload the declaration engine holds for its decl_id with no error and no
\* warning, or fails with exactly the engine's error when the engine cannot
\* resolve the handle as that kind; expect_variable returns the inline payload
\* without resolving a handle.
C3_MatchReturnsPayload ==
    (Expected /\ last.d.tag = ExpectedTag(last.kind)) =>
        /\ last.result.warnings = <<>>
        /\ IF last.kind = "variable"
           THEN /\ last.result.value = <<last.d.decl>>
                /\ last.result.errors = <<>>
                /\ last.result.lookups = <<>>
           ELSE IF decl_slab[last.d.decl_id + 1].kind = last.kind
           THEN /\ last.result.value = <<decl_slab[last.d.decl_id + 1]>>
                /\ last.result.errors = <<>>
           ELSE /\ last.result.value = <<>>
                /\ last.result.errors =
                       <<[type |-> "DeclEngine", expected |-> last.kind,
                          actually |-> decl_slab[last.d.decl_id + 1].kind,
                          span |-> last.access_span]>>

C3_Witness ==
    /\ Expected
    /\ last.kind = "function"
    /\ last.d.tag = "FunctionDeclaration"
    /\ last.d.decl_id = 1
    /\ decl_slab[1] = Payload("function", 0)
    /\ decl_slab[2] = Payload("function", 1)
    /\ last.result.value = <<Payload("function", 1)>>

(***************************************************************************)
(* Claims about TyDeclaration equality and hashing, under                  *)
(* SpecDeclarationEq.                                                      *)
(***************************************************************************)
DeclCompared == last.op = "decl_eq"

\* The payload-level equality and hash of the two sides agree: equal payloads
\* (or type shapes, or variable payloads) hash alike.
PayloadLevelConsistent(l, r) ==
    CASE l.tag \in NamedHandleTags \cup {"StorageDeclaration"} ->
             PayloadEq(DeclEngineGet(l.decl_id), DeclEngineGet(r.decl_id)) =>
                 PayloadHash(DeclEngineGet(l.decl_id)) = PayloadHash(DeclEngineGet(r.decl_id))
      [] l.tag = "GenericTypeForFunctionScope" ->
             TypeInfoEq(TypeEngineGet(l.type_id), TypeEngineGet(r.type_id)) =>
                 TypeInfoHash(TypeEngineGet(l.type_id)) = TypeInfoHash(TypeEngineGet(r.type_id))
      [] l.tag = "VariableDeclaration" ->
             TyVariableDeclarationEq(l.decl, r.decl) =>
                 TyVariableDeclarationHash(l.decl) = TyVariableDeclarationHash(r.decl)
      [] OTHER -> TRUE

\* C4: declarations that are equal under the engines hash alike, provided the
\* payload-level equality and hash of the engines agree in the same way; the
\* hash starts with the discriminant.
C4_DeclEqImpliesSameHash ==
    DeclCompared =>
        /\ Head(last.hash_l) = WInt(Discriminant(last.l))
        /\ (/\ last.eq
            /\ last.l.tag = last.r.tag => PayloadLevelConsistent(last.l, last.r))
               => last.hash_l = last.hash_r

C4_Witness ==
    /\ DeclCompared
    /\ last.l.tag = "FunctionDeclaration"
    /\ last.r.tag = "FunctionDeclaration"
    /\ last.l.decl_id # last.r.decl_id
    /\ last.l.decl_span # last.r.decl_span
    /\ last.eq
    /\ last.hash_l = last.hash_r

\* C5: declarations of different variants are never equal, whatever their
\* names, spans, handles and payloads.
C5_DifferentVariantsUnequal ==
    (DeclCompared /\ last.l.tag # last.r.tag) => ~last.eq

C5_Witness ==
    /\ DeclCompared
    /\ last.l.tag = "FunctionDeclaration"
    /\ last.r.tag = "ConstantDeclaration"
    /\ last.l.name = last.r.name
    /\ last.l.decl_id = last.r.decl_id
    /\ ~last.eq

\* C6: two declarations of one named handle-backed variant are equal exactly
\* when their names are equal and the payloads behind their handles are equal;
\* two StorageDeclarations exactly when those payloads are equal; two
\* ErrorRecovery exactly when their spans are equal; two
\* GenericTypeForFunctionScope exactly when their names are equal and the
\* shapes behind their type handles are equal.
C6_EqualityByVariant ==
    (DeclCompared /\ last.l.tag = last.r.tag) =>
        CASE last.l.tag \in NamedHandleTags ->
                 last.eq <=>
                     /\ last.l.name.str = last.r.name.str
                     /\ PayloadEq(decl_slab[last.l.decl_id + 1],
                                  decl_slab[last.r.decl_id + 1])
          [] last.l.tag = "StorageDeclaration" ->
                 last.eq <=> PayloadEq(decl_slab[last.l.decl_id + 1],
                                       decl_slab[last.r.decl_id + 1])
          [] last.l.tag = "ErrorRecovery" -> last.eq <=> (last.l.span = last.r.span)
          [] last.l.tag = "GenericTypeForFunctionScope" ->
                 last.eq <=>
                     /\ last.l.name.str = last.r.name.str
                     /\ TypeInfoEq(type_slab[last.l.type_id + 1],
                                   type_slab[last.r.type_id + 1])
          [] OTHER -> TRUE

C6_Witness ==
    /\ DeclCompared
    /\ last.l.tag = "StructDeclaration"
    /\ last.r.tag = "StructDeclaration"
    /\ last.l.decl_id = 1
    /\ last.r.decl_id = 0
    /\ last.l.decl_span = "s2"
    /\ last.r.decl_span = "s1"
    /\ decl_slab[1].type_id # decl_slab[2].type_id
    /\ last.eq

(***************************************************************************)
(* Claims about substitution and self-type replacement, under SpecArena.   *)
(***************************************************************************)
Substituted == last.op = "subst"
SelfTypeReplaced == last.op = "replace_self_type"

\* Every payload stored before the last call is stored unchanged after it.
DeclsKept ==
    /\ Len(decl_slab) >= Len(last.decl_before)
    /\ \A i \in 1 .. Len(last.decl_before) : decl_slab[i] = last.decl_before[i]

\* C11: substitution on a Function, Trait, Struct, Enum or ImplTrait
\* declaration with handle h leaves the payload at h, and every other stored
\* payload, as it was; when the placeholder occurs in the payload at h the
\* declaration's handle becomes a new handle on the payload with the
\* substituted type, and when it does not occur the handle stays h.
C11_SubstKeepsTemplate ==
    (Substituted /\ last.d.tag \in RewrittenTags) =>
        /\ DeclsKept
        /\ last.after.tag = last.d.tag
        /\ last.after.name = last.d.name
        /\ last.after.decl_span = last.d.decl_span
        /\ IF last.decl_before[last.d.decl_id + 1].type_id = last.type_mapping.from
           THEN /\ last.after.decl_id = Len(last.decl_before)
                /\ Len(decl_slab) = Len(last.decl_before) + 1
                /\ decl_slab[last.after.decl_id + 1] =
                       [last.decl_before[last.d.decl_id + 1]
                            EXCEPT !.type_id = last.type_mapping.to]
           ELSE /\ last.after.decl_id = last.d.decl_id
                /\ decl_slab = last.decl_before

\* Two instantiations of the template at handle 0 stand next to it.
C11_Witness ==
    /\ Substituted
    /\ last.d.tag = "StructDeclaration"
    /\ last.d.decl_id = 0
    /\ last.after.decl_id = 2
    /\ decl_slab = <<Payload("struct", 0), Payload("struct", 2), Payload("struct", 1)>>

\* C12: substitution on an Abi, Constant, Storage, GenericTypeForFunctionScope
\* or ErrorRecovery declaration leaves the declaration and both engines as they
\* were, for every substitution map.
C12_SubstIgnored ==
    (/\ Substituted
     /\ last.d.tag \in {"AbiDeclaration", "ConstantDeclaration", "StorageDeclaration",
                        "GenericTypeForFunctionScope", "ErrorRecovery"}) =>
        /\ last.after = last.d
        /\ decl_slab = last.decl_before
        /\ type_slab = last.type_before

\* The placeholder of the map occurs in the payload behind the handle.
C12_Witness ==
    /\ Substituted
    /\ last.d.tag = "ConstantDeclaration"
    /\ decl_slab[last.d.decl_id + 1].type_id = last.type_mapping.from
    /\ last.after = last.d

\* C13: replace_self_type rewrites the inline payload of a VariableDeclaration,
\* rewrites only the decl_id of a Function, Trait, Struct, Enum or ImplTrait
\* declaration, and leaves Abi, Constant, Storage, GenericTypeForFunctionScope
\* and ErrorRecovery declarations and the engines as they were.
C13_ReplaceSelfTypePartition ==
    SelfTypeReplaced =>
        /\ DeclsKept
        /\ type_slab = last.type_before
        /\ CASE last.d.tag = "VariableDeclaration" ->
                    /\ last.after.tag = "VariableDeclaration"
                    /\ last.after.decl.name = last.d.decl.name
                    /\ last.after.decl.mutability = last.d.decl.mutability
                    /\ last.after.decl.type_ascription =
                           IF type_slab[last.d.decl.type_ascription + 1].tag = "SelfType"
                           THEN last.self_type ELSE last.d.decl.type_ascription
                    /\ last.after.decl.body.return_type =
                           IF type_slab[last.d.decl.body.return_type + 1].tag = "SelfType"
                           THEN last.self_type ELSE last.d.decl.body.return_type
                    /\ decl_slab = last.decl_before
             [] last.d.tag \in RewrittenTags ->
                    /\ last.after = [last.d EXCEPT !.decl_id = last.after.decl_id]
                    /\ IF type_slab[last.decl_before[last.d.decl_id + 1].type_id + 1].tag
                              = "SelfType"
                       THEN /\ last.after.decl_id = Len(last.decl_before)
                            /\ decl_slab[last.after.decl_id + 1].type_id = last.self_type
                       ELSE /\ last.after.decl_id = last.d.decl_id
                            /\ decl_slab = last.decl_before
             [] OTHER ->
                    /\ last.after = last.d
                    /\ decl_slab = last.decl_before

C13_Witness ==
    /\ SelfTypeReplaced
    /\ last.d.tag = "StructDeclaration"
    /\ last.d.decl_id = 1
    /\ last.self_type = 2
    /\ last.after.decl_id = 2
    /\ last.after.name = last.d.name
    /\ last.after.decl_span = last.d.decl_span
    /\ decl_slab = <<Payload("struct", 0), Payload("struct", 1), Payload("struct", 2)>>

\* C14: both engines are append-only with stable handles: no step of
\* insertion, substitution, self-type replacement or return_type removes a
\* stored entry or changes what an issued handle resolves to.
C14_ArenasAppendOnly ==
    [][/\ Len(type_slab') >= Len(type_slab)
       /\ \A i \in 1 .. Len(type_slab) : type_slab'[i] = type_slab[i]
       /\ Len(decl_slab') >= Len(decl_slab)
       /\ \A i \in 1 .. Len(decl_slab) : decl_slab'[i] = decl_slab[i]]_vars

\* return_type has stored a shape after a rewriting call has stored a payload.
C14_Witness ==
    /\ last.op = "return_type"
    /\ last.d.tag = "StructDeclaration"
    /\ Len(decl_slab) = MaxArenaDecls
    /\ Len(type_slab) = Len(last.type_before) + 1
    /\ last.result.value = <<Len(last.type_before)>>
    /\ \A i \in 1 .. Len(GenericTypes) : type_slab[i] = GenericTypes[i]

(***************************************************************************)
(* Claims about return_type, under SpecReturnType.                         *)
(***************************************************************************)
TypeAsked == last.op = "return_type"

\* C16: return_type on a Constant, Trait, ImplTrait, Abi or ErrorRecovery
\* declaration returns no TypeId and exactly one NotAType error whose
\* actually_is is the declaration's friendly_type_name and whose span is the
\* declaration's own span, and stores nothing in the type engine; on a
\* GenericTypeForFunctionScope it succeeds with the bound TypeId.
C16_NotATypeOrBoundType ==
    TypeAsked =>
        CASE last.d.tag \in {"ConstantDeclaration", "TraitDeclaration", "ImplTrait",
                            "AbiDeclaration", "ErrorRecovery"} ->
                 /\ last.result.value = <<>>
                 /\ last.result.warnings = <<>>
                 /\ Len(last.result.errors) = 1
                 /\ last.result.errors[1].type = "NotAType"
                 /\ last.result.errors[1].actually_is = friendly_type_name(last.d)
                 /\ last.result.errors[1].span = span(last.d)
                 /\ type_slab = last.type_before
          [] last.d.tag = "GenericTypeForFunctionScope" ->
                 /\ last.result.value = <<last.d.type_id>>
                 /\ last.result.errors = <<>>
                 /\ last.result.warnings = <<>>
                 /\ type_slab = last.type_before
          [] OTHER -> TRUE

C16_Witness ==
    /\ TypeAsked
    /\ last.d.tag = "TraitDeclaration"
    /\ last.d.decl_span = "s2"
    /\ last.access_span = "s1"
    /\ decl_slab[last.d.decl_id + 1].kind = "trait"
    /\ last.result.value = <<>>
    /\ last.result.errors[1].actually_is = "trait"
    /\ last.result.errors[1].span = "s2"

\* C17: return_type on a VariableDeclaration returns the TypeId of the
\* variable's type ascription, and on a FunctionDeclaration the declared return
\* type of the resolved function payload, in both cases storing nothing in the
\* type engine.
C17_ReturnsAscribedType ==
    TypeAsked =>
        CASE last.d.tag = "VariableDeclaration" ->
                 /\ last.result.value = <<last.d.decl.type_ascription>>
                 /\ type_slab = last.type_before
          [] last.d.tag = "FunctionDeclaration"
                 /\ decl_slab[last.d.decl_id + 1].kind = "function" ->
                 /\ last.result.value = <<decl_slab[last.d.decl_id + 1].type_id>>
                 /\ type_slab = last.type_before
          [] OTHER -> TRUE

(***************************************************************************)
(* Properties of the read-only queries.                                    *)
(***************************************************************************)
PublicByDefaultTags ==
    {"GenericTypeForFunctionScope", "ImplTrait", "StorageDeclaration",
     "AbiDeclaration", "ErrorRecovery"}

\* C15: visibility on GenericTypeForFunctionScope, ImplTrait,
\* StorageDeclaration, AbiDeclaration and ErrorRecovery gives Public with no
\* warning, no error and no handle resolved, whatever the engines hold.
C15_PublicByDefault ==
    (last.op = "visibility" /\ last.d.tag \in PublicByDefaultTags)
        => last.result = ok("Public", <<>>, <<>>, <<>>)

\* An ImplTrait handle whose DeclId holds a private struct is reported Public.
C15_Witness ==
    /\ last.op = "visibility"
    /\ last.d.tag = "ImplTrait"
    /\ DeclEngineGet(last.d.decl_id) = VisiblePayload("struct", 0, "Private")
    /\ last.result.value = <<"Public">>

\* C18 as stated: the identifier for every kind other than ImplTrait, the
\* empty string for VariableDeclaration, ErrorRecovery and StorageDeclaration,
\* and identifier, " for ", rendering for ImplTrait.
C18_FriendlyNameAsStated ==
    last.op = "friendly_name" =>
        /\ ~last.result.aborted
        /\ last.result.value =
             CASE last.d.tag = "ImplTrait" ->
                      <<last.d.name.str, " for ">>
                          \o json_abi_str(TypeEngineGet(DeclEngineGet(last.d.decl_id).type_id))
               [] last.d.tag \in {"VariableDeclaration", "ErrorRecovery",
                                  "StorageDeclaration"} -> <<>>
               [] OTHER -> <<last.d.name.str>>

\* C18: friendly_name gives the identifier for every kind other than
\* ImplTrait that has one, the variable's name for a VariableDeclaration, and
\* the empty string for ErrorRecovery and StorageDeclaration only; for
\* ImplTrait it gives identifier, " for ", rendering of the implementing type
\* when the handle resolves to an impl trait, and aborts when it does not.
C18_FriendlyName ==
    last.op = "friendly_name" =>
        CASE last.d.tag = "ImplTrait" ->
                 IF DeclEngineGet(last.d.decl_id).kind = "impl trait"
                 THEN last.result =
                          Returned(<<last.d.name.str, " for ">>
                              \o json_abi_str(TypeEngineGet(
                                     DeclEngineGet(last.d.decl_id).type_id)))
                 ELSE last.result.aborted
          [] last.d.tag = "VariableDeclaration" ->
                 last.result = Returned(<<last.d.decl.name.str>>)
          [] last.d.tag \in {"ErrorRecovery", "StorageDeclaration"} ->
                 last.result = Returned(<<>>)
          [] OTHER -> last.result = Returned(<<last.d.name.str>>)

\* friendly_name of a variable is its name.
C18_Witness ==
    /\ last.op = "friendly_name"
    /\ last.d.tag = "VariableDeclaration"
    /\ last.result = Returned(<<"a">>)

DocumentedTags ==
    {"StructDeclaration", "EnumDeclaration", "TraitDeclaration", "AbiDeclaration",
     "StorageDeclaration", "ImplTrait", "FunctionDeclaration", "ConstantDeclaration"}

DocLabel(tag) ==
    CASE tag = "StructDeclaration" -> "struct"
      [] tag = "EnumDeclaration" -> "enum"
      [] tag = "TraitDeclaration" -> "trait"
      [] tag = "AbiDeclaration" -> "abi"
      [] tag = "StorageDeclaration" -> "contract_storage"
      [] tag = "ImplTrait" -> "impl_trait"
      [] tag = "FunctionDeclaration" -> "fn"
      [] tag = "ConstantDeclaration" -> "constant"

\* C19: the classifier gives Documentable only for the eight documented
\* kinds, doc_name gives a label on exactly those kinds, the classifier gives
\* NonDocumentable for Variable, GenericTypeForFunctionScope and
\* ErrorRecovery, where doc_name aborts; so doc_name never aborts on the
\* declaration of a Documentable item.
C19_DocNameOnDocumentable ==
    last.op = "doc" =>
        /\ last.descriptor.tag = "Documentable" => last.d.tag \in DocumentedTags
        /\ last.d.tag \in DocumentedTags
               => last.doc_name = Returned(<<DocLabel(last.d.tag)>>)
        /\ last.d.tag \notin DocumentedTags
               => last.descriptor = NonDocumentable /\ last.doc_name.aborted
        /\ last.descriptor.tag = "Documentable" => ~last.doc_name.aborted

\* A private constant documented because private items are asked for.
C19_Witness ==
    /\ last.op = "doc"
    /\ last.d.tag = "ConstantDeclaration"
    /\ DeclEngineGet(last.d.decl_id) = VisiblePayload("constant", 0, "Private")
    /\ last.document_private_items
    /\ last.descriptor.tag = "Documentable"
    /\ last.doc_name = Returned(<<"constant">>)

\* C20 as stated: get_decl_ref never aborts; Some(DeclRef) of name, DeclId and
\* decl_span for the seven named handle kinds, None for VariableDeclaration,
\* GenericTypeForFunctionScope, ErrorRecovery and StorageDeclaration.
C20_DeclRefNeverAborts ==
    last.op = "get_decl_ref" =>
        /\ ~last.result.aborted
        /\ last.result.value =
             IF last.d.tag \in NamedHandleTags
             THEN <<DeclRef(last.d.name, last.d.decl_id, last.d.decl_span)>>
             ELSE <<>>

(***************************************************************************)
(* Properties of collect_types_metadata.                                   *)
(***************************************************************************)
MetadataCollected == last.op = "collect_types_metadata"

NoMetadataTags ==
    {"ErrorRecovery", "StorageDeclaration", "TraitDeclaration", "StructDeclaration",
     "EnumDeclaration", "ImplTrait", "AbiDeclaration", "GenericTypeForFunctionScope"}

\* C21: on success collect_types_metadata gives, for a variable, the metadata
\* of the initializer followed by that of the ascribed type; for a function,
\* the metadata of the resolved payload; for a constant, the metadata of its
\* value or the empty list when it has none; and the empty list, with no
\* handle resolved, for the eight other kinds.
C21_MetadataByKind ==
    (MetadataCollected /\ last.result.value # <<>>) =>
        CASE last.d.tag = "VariableDeclaration" ->
                 last.result.value[1] = last.body.value[1] \o last.ascription.value[1]
          [] last.d.tag = "FunctionDeclaration" ->
                 /\ DeclEngineGet(last.d.decl_id).kind = "function"
                 /\ last.result.value[1] = last.inner.value[1]
          [] last.d.tag = "ConstantDeclaration" ->
                 /\ DeclEngineGet(last.d.decl_id).kind = "constant"
                 /\ last.result.value[1] =
                        IF DeclEngineGet(last.d.decl_id).has_value
                        THEN last.inner.value[1] ELSE <<>>
          [] OTHER -> last.result = ok(<<>>, <<>>, <<>>, <<>>)

\* A variable whose initializer and ascription both have metadata.
C21_Witness ==
    /\ MetadataCollected
    /\ last.d.tag = "VariableDeclaration"
    /\ last.result.value = <<<<[of |-> "body"], [of |-> "type_ascription"]>>>>

\* The delegated collections the call of `last` runs, in order.
DelegatedRun ==
    CASE last.d.tag = "VariableDeclaration" ->
             IF last.body.value = <<>> THEN <<last.body>>
             ELSE <<last.body, last.ascription>>
      [] last.d.tag = "FunctionDeclaration"
             /\ DeclEngineGet(last.d.decl_id).kind = "function" -> <<last.inner>>
      [] last.d.tag = "ConstantDeclaration"
             /\ DeclEngineGet(last.d.decl_id).kind = "constant"
             /\ DeclEngineGet(last.d.decl_id).has_value -> <<last.inner>>
      [] OTHER -> <<>>

ResolutionFailed ==
    \/ last.d.tag = "FunctionDeclaration"
           /\ DeclEngineGet(last.d.decl_id).kind # "function"
    \/ last.d.tag = "ConstantDeclaration"
           /\ DeclEngineGet(last.d.decl_id).kind # "constant"

ErrorsOf(result) == {result.errors[i] : i \in DOMAIN result.errors}

\* C22: a failed resolution of the Function or Constant handle, or a failed
\* delegated collection, makes the result a failure with no metadata whose
\* errors contain the failing errors; a success has no errors.
C22_FailurePropagated ==
    MetadataCollected =>
        /\ ResolutionFailed =>
               /\ last.result.value = <<>>
               /\ last.result.errors =
                      <<DeclEngineError(friendly_type_name(last.d), last.d.decl_id,
                                        last.d.decl_span)>>
        /\ \A i \in DOMAIN DelegatedRun :
               (DelegatedRun[i].value = <<>> \/ DelegatedRun[i].errors # <<>>) =>
                   /\ last.result.value = <<>>
                   /\ ErrorsOf(DelegatedRun[i]) \subseteq ErrorsOf(last.result)
        /\ last.result.value # <<>> => last.result.errors = <<>>

\* The initializer gives a value with an error and the ascription succeeds:
\* the result is a failure carrying the error.
C22_Witness ==
    /\ MetadataCollected
    /\ last.d.tag = "VariableDeclaration"
    /\ last.body = Delegated("body", "value with errors")
    /\ last.ascription = Delegated("type_ascription", "ok")
    /\ last.result = err(<<>>, <<[failed |-> "body"]>>, <<>>)

(***************************************************************************)
(* Properties of the documentation classifier.                             *)
(***************************************************************************)
Classified == last.op = "doc"

\* The handle of the classified declaration resolves as its own kind, and so
\* do the handles of its interface.
Resolvable ==
    /\ "decl_id" \in DOMAIN last.d
           => DeclEngineGet(last.d.decl_id).kind = friendly_type_name(last.d)
    /\ last.interface_surface # "dangling"

HiddenPrivateItem ==
    /\ last.d.tag \in {"StructDeclaration", "EnumDeclaration", "TraitDeclaration",
                       "FunctionDeclaration", "ConstantDeclaration"}
    /\ DeclEngineGet(last.d.decl_id).visibility = "Private"
    /\ ~last.document_private_items

NeverDocumented ==
    last.d.tag \in {"VariableDeclaration", "GenericTypeForFunctionScope", "ErrorRecovery"}

\* C23 as stated: a resolvable declaration is NonDocumentable exactly when it
\* is a hidden private item or a Variable, GenericTypeForFunctionScope or
\* ErrorRecovery, and Documentable in every other case, with attrs_opt None
\* when the payload has no attributes.
C23_DocumentableOtherwise ==
    (Classified /\ Resolvable) =>
        /\ last.descriptor = NonDocumentable <=> (HiddenPrivateItem \/ NeverDocumented)
        /\ ~(HiddenPrivateItem \/ NeverDocumented)
               => last.descriptor.tag = "Documentable"
        /\ (last.descriptor.tag = "Documentable" /\ last.attributes = "empty")
               => last.descriptor.attrs_opt = <<>>

\* The payload's attributes are rendered by the classifier and fail to.
AttributesFail ==
    /\ last.d.tag # "ImplTrait"
    /\ last.attributes = "unrenderable"

\* C23: a resolvable declaration is NonDocumentable exactly when it is a
\* hidden private item or a Variable, GenericTypeForFunctionScope or
\* ErrorRecovery; in every other case it is Documentable, with attrs_opt None
\* when the payload has no attributes, unless the payload's attributes fail
\* to render, in which case the classifier returns an error.
C23_DocumentableUnlessAttributesFail ==
    (Classified /\ Resolvable) =>
        /\ last.descriptor = NonDocumentable <=> (HiddenPrivateItem \/ NeverDocumented)
        /\ ~(HiddenPrivateItem \/ NeverDocumented) =>
               IF AttributesFail THEN last.descriptor = DescriptorErr
               ELSE last.descriptor.tag = "Documentable"
        /\ (last.descriptor.tag = "Documentable" /\ last.attributes = "empty")
               => last.descriptor.attrs_opt = <<>>

\* A private struct without attributes, classified with private items shown.
C23_Witness ==
    /\ Classified
    /\ last.d.tag = "StructDeclaration"
    /\ DeclEngineGet(last.d.decl_id) = VisiblePayload("struct", 0, "Private")
    /\ last.document_private_items
    /\ last.attributes = "empty"
    /\ last.descriptor = Documentable(<<>>)

(***************************************************************************)
(* Properties of the use statement helpers.                                *)
(***************************************************************************)
\* x may not come after y in a sorted group: x is `self` and y is not, or
\* neither is and x is the smaller string.
MustPrecede(x, y) ==
    \/ x = <<"self">> /\ y # <<"self">>
    \/ x # <<"self">> /\ y # <<"self">> /\ StrLess(x, y)

\* The arrangements of items that are sorted.
SortedArrangements(items) ==
    {[i \in DOMAIN items |-> items[p[i]]] :
        p \in {q \in [DOMAIN items -> DOMAIN items] :
                 /\ \A i, j \in DOMAIN items : i # j => q[i] # q[j]
                 /\ \A i, j \in DOMAIN items :
                        i < j => ~MustPrecede(items[q[j]], items[q[i]])}}

\* A group in normal form: one item is unwrapped, more are joined by ", ".
NormalGroups(items) ==
    IF Len(items) = 1 THEN {items[1]}
    ELSE {<<"{">> \o StrJoin(sorted, <<",", " ">>) \o <<"}">> :
            sorted \in SortedArrangements(items)}

NormalItem(item) ==
    IF item.group = <<>> THEN <<item.name>>
    ELSE <<item.name, "::">>
             \o (CHOOSE g \in NormalGroups([i \in DOMAIN item.group |-> <<item.group[i]>>]) :
                     TRUE)

NormalUses(tree) ==
    {<<"a", "::">> \o g \o <<";">> :
        g \in NormalGroups([i \in DOMAIN tree |-> NormalItem(tree[i])])}

LengthFormatted == last.op = "format_use_stmnt_length"

\* C25: for a normalised use expression shorter than MAX_LINE_LENGTH,
\* format_use_stmnt_length returns lines that concatenate to exactly the
\* input, with no line break.
C25_ShortUntouched ==
    (LengthFormatted /\ StrLen(last.s) < MAX_LINE_LENGTH) =>
        /\ StrConcat(last.lines) = last.s
        /\ \A i \in DOMAIN last.lines :
               \A j \in DOMAIN last.lines[i] : last.lines[i][j] # LineBreak

\* a::{self, b, d::{a, b}}; is returned as it is.
C25_Witness ==
    /\ LengthFormatted
    /\ last.s = <<"a", "::", "{", "self", ",", " ", "b", ",", " ", "d", "::", "{",
                  "a", ",", " ", "b", "}", "}", ";">>
    /\ last.lines = <<last.s>>

RECURSIVE OpenBraces(_)
\* The brace groups open at the end of a text.
OpenBraces(s) ==
    IF s = <<>> THEN 0
    ELSE OpenBraces(SubSeq(s, 1, Len(s) - 1))
             + (CASE s[Len(s)] = "{" -> 1 [] s[Len(s)] = "}" -> -1 [] OTHER -> 0)

\* The text of the first n lines.
LinesBefore(n) == StrConcat(SubSeq(last.lines, 1, n))

WithoutBreaks(s) == SelectSeq(s, LAMBDA c : c # LineBreak)

\* C26: format_use_stmnt_length emits a line break only at the end of a line
\* that ends with a comma, has reached MAX_LINE_LENGTH, and leaves at most
\* one brace group open; without the breaks the output is the single-line
\* form.
C26_BreaksAtSafePoints ==
    LengthFormatted =>
        /\ \A i \in DOMAIN last.lines :
               LET line == last.lines[i]
                   text == SubSeq(line, 1, Len(line) - 1)
               IN  /\ \A j \in 1..(Len(line) - 1) : line[j] # LineBreak
                   /\ line[Len(line)] = LineBreak =>
                          /\ Trim(text) # <<>> /\ Trim(text)[Len(Trim(text))] = ","
                          /\ StrLen(text) >= MAX_LINE_LENGTH
                          /\ OpenBraces(WithoutBreaks(LinesBefore(i))) <= 1
        /\ WithoutBreaks(StrConcat(last.lines)) = last.s

\* a::{Long, d::{Long, b}, self}: the line is broken after the top-level
\* "Long, " and the nested group, long as it is, stays on one line.
C26_Witness ==
    /\ LengthFormatted
    /\ last.lines = << <<"a", "::", "{", "self", ",", " ", "Long", ",", " ", LineBreak>>,
                       <<"d", "::", "{", "Long", ",", " ", "b", "}", "}", ";">> >>

(***************************************************************************)
(* Properties of TopLevelStatement::parse.                                 *)
(***************************************************************************)
RECURSIVE LeadingHashes(_, _)
\* The number of leading token groups of the stream that start with `#`,
\* from position at on, each taken as `#` and the token after it.
LeadingHashes(tokens, at) ==
    IF at <= Len(tokens) /\ tokens[at] = "#"
    THEN 1 + LeadingHashes(tokens, at + 2)
    ELSE 0

\* The group that starts at the n-th `#` is an attribute.
WellFormedAttribute(tokens, n) ==
    2 * n <= Len(tokens) /\ tokens[2 * n] \in {"[a]", "[b]"}

ParseReturned == last.op = "parse" /\ last.pc = "done"

ParseCorrect ==
    LET tokens == last.tokens
        n == LeadingHashes(tokens, 1)
        item_at == 2 * n + 1
    IN  IF /\ \A i \in 1..n : WellFormedAttribute(tokens, i)
           /\ item_at <= Len(tokens) /\ tokens[item_at] = "fn"
        THEN /\ last.result.ok
             /\ last.result.value.attribute_list =
                    [i \in 1..n |-> [attribute |-> tokens[2 * i], at |-> 2 * i - 1]]
             /\ last.result.value.item = [item |-> "fn", at |-> item_at]
        ELSE ~last.result.ok

\* C27: TopLevelStatement::parse terminates; on success attribute_list holds
\* exactly the leading attributes in source order and the item is the one
\* parsed after them; when an attribute or the item fails to parse, the error
\* is returned and no TopLevelStatement.
C27_ParsesLeadingAttributes ==
    /\ [](ParseReturned => ParseCorrect)
    /\ <>ParseReturned

\* `#[b] #[a] fn` gives the attributes b, a and the item.
C27_Witness ==
    /\ ParseReturned
    /\ last.tokens = <<"#", "[b]", "#", "[a]", "fn">>
    /\ last.result.ok
    /\ Len(last.result.value.attribute_list) = 2
    /\ last.result.value.attribute_list[1].attribute = "[b]"

(***************************************************************************)
(* Tuple shapes of different lengths.                                      *)
(***************************************************************************)
TuplesCompared == Compared /\ last.l.tag = "Tuple" /\ last.r.tag = "Tuple"

\* C28: two Tuple shapes are equal iff they have the same length and every
\* pair of corresponding elements resolves to equal shapes; tuples of
\* different lengths never compare equal.
C28_TuplesEqualIffSameLength ==
    TuplesCompared =>
        (last.eq <=>
            /\ Len(last.l.fields) = Len(last.r.fields)
            /\ \A i \in DOMAIN last.l.fields :
                   TypeInfoEq(look_up_type_id(last.l.fields[i].type_id),
                              look_up_type_id(last.r.fields[i].type_id)))

(***************************************************************************)
(* Properties of custom_format_with_comments.                              *)
(***************************************************************************)
ScanReturned == last.op = "scan" /\ last.iter > Len(last.text)

ScannerCopies == SelectSeq(last.result, LAMBDA r : r.from # 0)

ScanInvariant ==
    /\ ~(last.is_curr_comment /\ last.is_curr_multi_comment)
    /\ [i \in DOMAIN ScannerCopies |-> ScannerCopies[i].from] = last.in_comment
    /\ \A i \in DOMAIN ScannerCopies :
           ScannerCopies[i].c = last.text[ScannerCopies[i].from]
    /\ \A i, j \in DOMAIN last.in_comment :
           i < j => last.in_comment[i] < last.in_comment[j]
    /\ \A i \in DOMAIN last.called, j \in DOMAIN last.in_comment :
           last.called[i] # last.in_comment[j]
    /\ last.iter <= Len(last.text) + 1

\* C29: the two comment flags are never both set; the characters of the
\* comments, delimiters and closing newline included, are copied to the
\* result verbatim and in order; custom_format_fn is called only on
\* characters outside comments; and the scan ends with the whole input
\* consumed.
C29_CommentsCopiedVerbatim ==
    /\ [](last.op = "scan" => ScanInvariant)
    /\ <>ScanReturned

\* x/**/x: the block comment is copied with both delimiters.
C29_Witness ==
    /\ ScanReturned
    /\ last.text = <<"x", "/", "*", "*", "/">>
    /\ last.in_comment = <<2, 3, 4, 5>>
    /\ last.called = <<1>>

(***************************************************************************)
(* Properties of `forc run`.                                               *)
(***************************************************************************)
RunReturned == last.op = "run" /\ last.pc = "returned"

\* The call returned Ok(receipts).
ReturnedOk(receipts) == last.result.returned = "Ok" /\ last.result.value = receipts

\* The call returned Err(error).
ReturnedErr(error) == last.result.returned = "Err" /\ last.result.value = error

Asked(name) == \E i \in DOMAIN last.node : last.node[i].request = name

\* The request name was sent, and before it the request before, which
\* succeeded.
AskedAfter(name, before) ==
    \A i \in DOMAIN last.node :
        last.node[i].request = name =>
            \E j \in 1..(i - 1) : last.node[j] = Request(before, TRUE)

Failed(name) == \E i \in DOMAIN last.node : last.node[i] = Request(name, FALSE)

\* The order of the requests and the fate of their errors.
RunOrdered ==
    /\ Asked("submit") => last.built /\ AskedAfter("submit", "health")
    /\ Failed("health") =>
           /\ ~Asked("submit")
           /\ RunReturned => ReturnedErr("fuel_core_not_running")
    /\ AskedAfter("receipts", "submit")
    /\ (Failed("submit") \/ Failed("receipts")) =>
           (RunReturned => last.result.returned = "Err")

====
